---- MODULE Spec2Model ----
(***************************************************************************)
(* A model of the R+ toolchain: the lexer (src/src/lexer.cpp), the         *)
(* recursive-descent parser, the AST-to-bytecode compiler and the register *)
(* virtual machine.  Each component has its own specification; the         *)
(* variables of the other components stay at their initial values.         *)
(***************************************************************************)
EXTENDS Naturals, Integers, Sequences, FiniteSets, TLC

VARIABLES
    \* ---- lexer (Lexer object and the vector built by tokenize) ----
    source,      \* the input text, a sequence of characters
    position,    \* Lexer::position, 0-based offset into source
    line,        \* Lexer::line
    column,      \* Lexer::column
    tokens,      \* the vector tokenize() is building
    calls,       \* history: per nextToken call, the offsets before the call,
                 \* at the token's first character and after the call
    lexDone,     \* tokenize() has returned
    earlier,     \* when source is a text with its comments taken out: the
                 \* text it was made from and the tokens that text gave
    \* ---- parser ----
    ptokens,     \* Parser::tokens
    presult,     \* what parse() returned or raised
    pstage,      \* "ready" before parse(), "done" after
    pearlier,    \* when ptokens is a vector with a terminator taken out:
                 \* the vector it was made from and what parse() gave for it
    \* ---- compiler ----
    cast,        \* the AST given to compile()
    comp,        \* the Compiler object, with the module it compiles into
    cstage,      \* "ready" before compile(), "done" after
    \* ---- register VM ----
    vm,          \* the VM object
    vrun,        \* "idle" before run(), "running" in its loop, then
                 \* "returned" or "raised"
    raised,      \* the message of the exception run() raised, "" if none
    executed,    \* instructions executed by this run
    api          \* the last call of the VM's interface other than run():
                 \* its arguments, what it returned, whether it read or
                 \* wrote outside the buffer, and the calls made so far

lexVars == <<source, position, line, column, tokens, calls, lexDone, earlier>>
parseVars == <<ptokens, presult, pstage, pearlier>>
compVars == <<cast, comp, cstage>>
vmVars == <<vm, vrun, raised, executed, api>>
vars == <<source, position, line, column, tokens, calls, lexDone, earlier,
          ptokens, presult, pstage, pearlier, cast, comp, cstage,
          vm, vrun, raised, executed, api>>

(***************************************************************************)
(* Characters.  A character is a one-character string; the NUL character,  *)
(* which a TLA+ string cannot hold, is the string named NUL below.         *)
(***************************************************************************)
NUL == "NUL"

\* The vertical tab, which TLA+ has no escape for.
VT == "VT"

Digits == {"0", "1", "2", "3", "4", "5", "6", "7", "8", "9"}

HexLetters == {"a", "b", "c", "d", "e", "f", "A", "B", "C", "D", "E", "F"}

Letters ==
    {"a", "b", "c", "d", "e", "f", "g", "h", "i", "j", "k", "l", "m",
     "n", "o", "p", "q", "r", "s", "t", "u", "v", "w", "x", "y", "z",
     "A", "B", "C", "D", "E", "F", "G", "H", "I", "J", "K", "L", "M",
     "N", "O", "P", "Q", "R", "S", "T", "U", "V", "W", "X", "Y", "Z"}

Spaces == {" ", "\t", "\n", "\r", "\f", VT}

isspace(c) == c \in Spaces

isdigit(c) == c \in Digits

isxdigit(c) == c \in Digits \cup HexLetters

isalpha(c) == c \in Letters

isalnum(c) == c \in Letters \cup Digits

(***************************************************************************)
(* The lexer.  A scan state L is [position, line, column].                 *)
(***************************************************************************)
Token(type, value, l, c) == [type |-> type, value |-> value, line |-> l, column |-> c]

\* source[i] of the std::string: the character at 0-based offset i, NUL at
\* offset length().
CharAt(i) == IF i < Len(source) THEN source[i + 1] ELSE NUL

current(L) == CharAt(L.position)

advance(L) ==
    IF L.position < Len(source)
    THEN IF source[L.position + 1] = "\n"
         THEN [position |-> L.position + 1, line |-> L.line + 1, column |-> 1]
         ELSE [position |-> L.position + 1, line |-> L.line, column |-> L.column + 1]
    ELSE L

peek(L, offset) ==
    LET lookahead == L.position + offset
    IN IF lookahead >= Len(source) THEN NUL ELSE source[lookahead + 1]

\* peek() without an argument: the lookahead of one character that the
\* callers rely on (scanString tests peek() to see whether a character
\* follows the backslash at source[position]).
peekNext(L) == peek(L, 1)

RECURSIVE skipLineComment(_)
skipLineComment(L) ==
    IF L.position < Len(source) /\ current(L) # "\n"
    THEN skipLineComment(advance(L))
    ELSE L

RECURSIVE skipBlockComment(_)
skipBlockComment(L) ==
    IF L.position < Len(source)
    THEN IF current(L) = "*" /\ peekNext(L) = "/"
         THEN advance(advance(L))
         ELSE skipBlockComment(advance(L))
    ELSE L

\* skipWhitespaceAndComments leaving its loop after a block comment.
RECURSIVE skipWhitespaceAndCommentsBreak(_)
skipWhitespaceAndCommentsBreak(L) ==
    IF L.position < Len(source)
    THEN IF isspace(current(L))
         THEN skipWhitespaceAndCommentsBreak(advance(L))
         ELSE IF current(L) = "/" /\ peekNext(L) = "/"
         THEN LET e == skipLineComment(advance(advance(L)))
              IN skipWhitespaceAndCommentsBreak(
                     IF e.position < Len(source) THEN advance(e) ELSE e)
         ELSE IF current(L) = "/" /\ peekNext(L) = "*"
         THEN skipBlockComment(advance(advance(L)))
         ELSE L
    ELSE L

RECURSIVE skipWhitespaceAndComments(_)
skipWhitespaceAndComments(L) ==
    IF L.position < Len(source)
    THEN IF isspace(current(L))
         THEN skipWhitespaceAndComments(advance(L))
         ELSE IF current(L) = "/" /\ peekNext(L) = "/"
         THEN LET e == skipLineComment(advance(advance(L)))
              IN skipWhitespaceAndComments(
                     IF e.position < Len(source) THEN advance(e) ELSE e)
         ELSE IF current(L) = "/" /\ peekNext(L) = "*"
         THEN skipWhitespaceAndComments(skipBlockComment(advance(advance(L))))
         ELSE L
    ELSE L

\* A scan result: the token and the scan state after it.
Scanned(tok, L) == [tok |-> tok, L |-> L]

makeToken(type, value, L) ==
    Scanned(Token(type, value, L.line, L.column), advance(L))

SingleCharTokens ==
    [c \in {"(", ")", "{", "}", "[", "]", ",", ";", ":", "?", "."} |->
        CASE c = "(" -> "LEFT_PAREN"
          [] c = ")" -> "RIGHT_PAREN"
          [] c = "{" -> "LEFT_BRACE"
          [] c = "}" -> "RIGHT_BRACE"
          [] c = "[" -> "LEFT_BRACKET"
          [] c = "]" -> "RIGHT_BRACKET"
          [] c = "," -> "COMMA"
          [] c = ";" -> "SEMICOLON"
          [] c = ":" -> "COLON"
          [] c = "?" -> "QUESTION"
          [] c = "." -> "DOT"]

\* nextToken's operators without the lookahead: every operator character
\* gives its single-character token.
scanOperatorSingle(L) ==
    LET c == current(L)
    IN makeToken(CASE c = "=" -> "EQUAL" [] c = "!" -> "NOT" [] c = "<" -> "LESS"
                   [] c = ">" -> "GREATER" [] c = "&" -> "AND" [] c = "|" -> "OR"
                   [] c = "+" -> "PLUS" [] c = "-" -> "MINUS" [] c = "*" -> "STAR"
                   [] c = "/" -> "SLASH" [] c = "%" -> "PERCENT" [] c = "^" -> "CARET"
                   [] c = "~" -> "TILDE",
                 <<c>>, L)

\* nextToken, lines 76-191: the operators.
scanOperator(L) ==
    LET c == current(L)
        p == peekNext(L)
    IN CASE c = "=" ->
              IF p = "=" THEN makeToken("EQUAL_EQUAL", <<"=", "=">>, advance(L))
              ELSE makeToken("EQUAL", <<"=">>, L)
         [] c = "!" ->
              IF p = "=" THEN makeToken("NOT_EQUAL", <<"!", "=">>, advance(L))
              ELSE makeToken("NOT", <<"!">>, L)
         [] c = "<" ->
              IF p = "=" THEN makeToken("LESS_EQUAL", <<"<", "=">>, advance(L))
              ELSE IF p = "<" THEN makeToken("LEFT_SHIFT", <<"<", "<">>, advance(L))
              ELSE makeToken("LESS", <<"<">>, L)
         [] c = ">" ->
              IF p = "=" THEN makeToken("GREATER_EQUAL", <<">", "=">>, advance(L))
              ELSE IF p = ">" THEN makeToken("RIGHT_SHIFT", <<">", ">">>, advance(L))
              ELSE makeToken("GREATER", <<">">>, L)
         [] c = "&" ->
              IF p = "&" THEN makeToken("AND_AND", <<"&", "&">>, advance(L))
              ELSE makeToken("AND", <<"&">>, L)
         [] c = "|" ->
              IF p = "|" THEN makeToken("OR_OR", <<"|", "|">>, advance(L))
              ELSE makeToken("OR", <<"|">>, L)
         [] c = "+" ->
              IF p = "+" THEN makeToken("PLUS_PLUS", <<"+", "+">>, advance(L))
              ELSE IF p = "=" THEN makeToken("PLUS_EQUAL", <<"+", "=">>, advance(L))
              ELSE makeToken("PLUS", <<"+">>, L)
         [] c = "-" ->
              IF p = "-" THEN makeToken("MINUS_MINUS", <<"-", "-">>, advance(L))
              ELSE IF p = "=" THEN makeToken("MINUS_EQUAL", <<"-", "=">>, advance(L))
              ELSE IF p = ">" THEN makeToken("ARROW", <<"-", ">">>, advance(L))
              ELSE makeToken("MINUS", <<"-">>, L)
         [] c = "*" ->
              IF p = "=" THEN makeToken("STAR_EQUAL", <<"*", "=">>, advance(L))
              ELSE makeToken("STAR", <<"*">>, L)
         [] c = "/" ->
              IF p = "=" THEN makeToken("SLASH_EQUAL", <<"/", "=">>, advance(L))
              ELSE makeToken("SLASH", <<"/">>, L)
         [] c = "%" ->
              IF p = "=" THEN makeToken("PERCENT_EQUAL", <<"%", "=">>, advance(L))
              ELSE makeToken("PERCENT", <<"%">>, L)
         [] c = "^" -> makeToken("CARET", <<"^">>, L)
         [] c = "~" -> makeToken("TILDE", <<"~">>, L)

OperatorChars == {"=", "!", "<", ">", "&", "|", "+", "-", "*", "/", "%", "^", "~"}

\* The escape table of scanString; quote is the literal's own quote.
decodeEscape(escaped, quote) ==
    CASE escaped = "n" -> "\n"
      [] escaped = "t" -> "\t"
      [] escaped = "r" -> "\r"
      [] escaped = "\\" -> "\\"
      [] escaped = quote -> quote
      [] escaped = "0" -> NUL
      [] OTHER -> escaped

RECURSIVE scanStringBody(_, _)
scanStringBody(L, value) ==
    IF L.position < Len(source) /\ current(L) # "\""
    THEN IF current(L) = "\\" /\ peekNext(L) # NUL
         THEN LET e == advance(L)
              IN scanStringBody(advance(e), Append(value, decodeEscape(current(e), "\"")))
         ELSE scanStringBody(advance(L), Append(value, current(L)))
    ELSE [L |-> L, value |-> value]

\* scanString reporting a literal that the end of the input cuts short.
scanStringStrict(L) ==
    LET body == scanStringBody(advance(L), <<>>)
    IN IF body.L.position < Len(source)
       THEN Scanned(Token("STRING", body.value, L.line, L.column), advance(body.L))
       ELSE Scanned(Token("ERROR", body.value, L.line, L.column), body.L)

scanString(L) ==
    LET body == scanStringBody(advance(L), <<>>)
        after == IF body.L.position < Len(source) THEN advance(body.L) ELSE body.L
    IN Scanned(Token("STRING", body.value, L.line, L.column), after)

scanCharacter(L) ==
    LET a == advance(L)
        body == IF a.position < Len(source) /\ current(a) = "\\"
                THEN LET e == advance(a)
                     IN [L |-> advance(e), value |-> <<decodeEscape(current(e), "'")>>]
                ELSE IF a.position < Len(source)
                THEN [L |-> advance(a), value |-> <<current(a)>>]
                ELSE [L |-> a, value |-> <<>>]
        after == IF body.L.position < Len(source) /\ current(body.L) = "'"
                 THEN advance(body.L)
                 ELSE body.L
    IN Scanned(Token("CHAR", body.value, L.line, L.column), after)

\* while (position < length && pred(source[position])) { value += ...; advance(); }
RECURSIVE scanDigits(_, _)
scanDigits(L, value) ==
    IF L.position < Len(source) /\ isdigit(current(L))
    THEN scanDigits(advance(L), Append(value, current(L)))
    ELSE [L |-> L, value |-> value]

RECURSIVE scanHexDigits(_, _)
scanHexDigits(L, value) ==
    IF L.position < Len(source) /\ isxdigit(current(L))
    THEN scanHexDigits(advance(L), Append(value, current(L)))
    ELSE [L |-> L, value |-> value]

scanNumber(L) ==
    IF current(L) = "0" /\ peekNext(L) \in {"x", "X"}
    THEN LET x == advance(L)
             h == scanHexDigits(advance(x), <<current(L), current(x)>>)
         IN Scanned(Token("NUMBER", h.value, L.line, L.column), h.L)
    ELSE
      LET int == scanDigits(L, <<>>)
      IN IF /\ int.L.position < Len(source)
            /\ current(int.L) = "."
            /\ int.L.position + 1 < Len(source)
            /\ isdigit(CharAt(int.L.position + 1))
         THEN LET frac == scanDigits(advance(int.L), Append(int.value, "."))
                  exp ==
                    IF frac.L.position < Len(source) /\ current(frac.L) \in {"e", "E"}
                    THEN LET e == [L |-> advance(frac.L),
                                   value |-> Append(frac.value, current(frac.L))]
                             s == IF e.L.position < Len(source)
                                     /\ current(e.L) \in {"+", "-"}
                                  THEN [L |-> advance(e.L),
                                        value |-> Append(e.value, current(e.L))]
                                  ELSE e
                         IN scanDigits(s.L, s.value)
                    ELSE frac
              IN Scanned(Token("FLOAT", exp.value, L.line, L.column), exp.L)
         ELSE Scanned(Token("NUMBER", int.value, L.line, L.column), int.L)

\* The keywords map, lines 7-26.
keywords(value) ==
    CASE value = <<"i", "f">> -> "IF"
      [] value = <<"e", "l", "s", "e">> -> "ELSE"
      [] value = <<"f", "o", "r">> -> "FOR"
      [] value = <<"w", "h", "i", "l", "e">> -> "WHILE"
      [] value = <<"r", "e", "t", "u", "r", "n">> -> "RETURN"
      [] value = <<"f", "u", "n", "c", "t", "i", "o", "n">> -> "FUNCTION"
      [] value = <<"v", "a", "r">> -> "VAR"
      [] value = <<"c", "o", "n", "s", "t">> -> "CONST"
      [] value = <<"c", "l", "a", "s", "s">> -> "CLASS"
      [] value = <<"s", "t", "r", "u", "c", "t">> -> "STRUCT"
      [] value = <<"t", "r", "u", "e">> -> "TRUE"
      [] value = <<"f", "a", "l", "s", "e">> -> "FALSE"
      [] value = <<"n", "u", "l", "l">> -> "NULL_TOKEN"
      [] value = <<"v", "o", "i", "d">> -> "VOID"
      [] value = <<"i", "n", "t">> -> "INT"
      [] value = <<"f", "l", "o", "a", "t">> -> "FLOAT"
      [] value = <<"s", "t", "r", "i", "n", "g">> -> "STRING"
      [] value = <<"b", "o", "o", "l">> -> "BOOL"
      [] OTHER -> "IDENTIFIER"

RECURSIVE scanIdentifierBody(_, _)
scanIdentifierBody(L, value) ==
    IF L.position < Len(source) /\ (isalnum(current(L)) \/ current(L) = "_")
    THEN scanIdentifierBody(advance(L), Append(value, current(L)))
    ELSE [L |-> L, value |-> value]

scanIdentifier(L) ==
    LET body == scanIdentifierBody(L, <<>>)
    IN Scanned(Token(keywords(body.value), body.value, L.line, L.column), body.L)

\* nextToken, lines 213-216: the unknown character.
scanUnknownNoAdvance(L) ==
    Scanned(Token("ERROR", <<current(L)>>, L.line, L.column), L)

scanUnknown(L) ==
    Scanned(Token("ERROR", <<current(L)>>, L.line, L.column), advance(L))

\* nextToken after skipWhitespaceAndComments: L is at the token's first character.
scanToken(L) ==
    IF L.position >= Len(source)
    THEN Scanned(Token("END_OF_FILE", <<>>, L.line, L.column), L)
    ELSE LET c == current(L)
         IN IF c \in DOMAIN SingleCharTokens THEN makeToken(SingleCharTokens[c], <<c>>, L)
            ELSE IF c \in OperatorChars THEN scanOperator(L)
            ELSE IF c = "\"" THEN scanString(L)
            ELSE IF c = "'" THEN scanCharacter(L)
            ELSE IF isdigit(c) THEN scanNumber(L)
            ELSE IF isalpha(c) \/ c = "_" THEN scanIdentifier(L)
            ELSE scanUnknown(L)

nextToken(L) == scanToken(skipWhitespaceAndComments(L))

(***************************************************************************)
(* tokenize(): one nextToken call per step, pushed onto the vector; the    *)
(* END_OF_FILE token is pushed last and ends the loop.                     *)
(***************************************************************************)
MaxSrcLen == 3

Alphabet == {"=", "/", "*", "+", "\"", "'", "\\", "a", "1", " ", "\n", "@"}

RECURSIVE SeqsUpTo(_, _)
SeqsUpTo(S, n) ==
    IF n = 0 THEN {<<>>}
    ELSE LET shorter == SeqsUpTo(S, n - 1)
         IN shorter \cup {Append(s, x) : s \in {t \in shorter : Len(t) = n - 1}, x \in S}

Sources == SeqsUpTo(Alphabet, MaxSrcLen)

\* The value of `earlier` while source is a text as it was written.
NoText == [source |-> <<>>, tokens |-> <<>>, filler |-> <<"none">>]

LexInit ==
    /\ source \in Sources
    /\ position = 0
    /\ line = 1
    /\ column = 1
    /\ tokens = <<>>
    /\ calls = <<>>
    /\ lexDone = FALSE
    /\ earlier = NoText

LexIdle ==
    /\ source = <<>>
    /\ position = 0
    /\ line = 1
    /\ column = 1
    /\ tokens = <<>>
    /\ calls = <<>>
    /\ lexDone = TRUE
    /\ earlier = NoText

tokenizePushNoEof(tok) == IF tok.type = "END_OF_FILE" THEN tokens ELSE Append(tokens, tok)

tokenizePush(tok) == Append(tokens, tok)

TokenizeStep ==
    /\ ~lexDone
    /\ LET L0 == [position |-> position, line |-> line, column |-> column]
           L1 == skipWhitespaceAndComments(L0)
           r == nextToken(L0)
       IN /\ position' = r.L.position
          /\ line' = r.L.line
          /\ column' = r.L.column
          /\ tokens' = tokenizePush(r.tok)
          /\ calls' = Append(calls, [before |-> L0.position,
                                     first |-> L1.position,
                                     after |-> r.L.position])
          /\ lexDone' = (r.tok.type = "END_OF_FILE")
    /\ UNCHANGED <<source, earlier>>

(***************************************************************************)
(* Texts around the two-character operators: each operator alone, after a  *)
(* space, after a character that could pair with its first character or    *)
(* open a comment, and before a character that could pair with its second. *)
(***************************************************************************)
TwoCharOperators ==
    { <<"=", "=", "EQUAL_EQUAL">>, <<"!", "=", "NOT_EQUAL">>,
      <<"<", "=", "LESS_EQUAL">>, <<">", "=", "GREATER_EQUAL">>,
      <<"<", "<", "LEFT_SHIFT">>, <<">", ">", "RIGHT_SHIFT">>,
      <<"&", "&", "AND_AND">>, <<"|", "|", "OR_OR">>,
      <<"+", "+", "PLUS_PLUS">>, <<"-", "-", "MINUS_MINUS">>,
      <<"+", "=", "PLUS_EQUAL">>, <<"-", "=", "MINUS_EQUAL">>,
      <<"*", "=", "STAR_EQUAL">>, <<"/", "=", "SLASH_EQUAL">>,
      <<"%", "=", "PERCENT_EQUAL">>, <<"-", ">", "ARROW">> }

OperatorSources ==
    { before \o <<op[1], op[2]>> \o after :
        op \in TwoCharOperators,
        before \in {<<>>, <<" ">>, <<"a">>, <<"<">>, <<"-">>, <<"/">>},
        after \in {<<>>, <<"=">>, <<">">>, <<"a">>} }

OperatorInit ==
    /\ source \in OperatorSources
    /\ position = 0
    /\ line = 1
    /\ column = 1
    /\ tokens = <<>>
    /\ calls = <<>>
    /\ lexDone = FALSE
    /\ earlier = NoText

(***************************************************************************)
(* The lexer and the parser together: the words of the keyword table, a    *)
(* few names, string and number literals, and keywords where an expression *)
(* is expected, each tokenized and the tokens handed to a Parser.          *)
(***************************************************************************)
WordSources ==
    { <<"i", "f">>,
      <<"e", "l", "s", "e">>,
      <<"f", "o", "r">>,
      <<"w", "h", "i", "l", "e">>,
      <<"r", "e", "t", "u", "r", "n">>,
      <<"f", "u", "n", "c", "t", "i", "o", "n">>,
      <<"v", "a", "r">>,
      <<"c", "o", "n", "s", "t">>,
      <<"c", "l", "a", "s", "s">>,
      <<"s", "t", "r", "u", "c", "t">>,
      <<"t", "r", "u", "e">>,
      <<"f", "a", "l", "s", "e">>,
      <<"n", "u", "l", "l">>,
      <<"v", "o", "i", "d">>,
      <<"i", "n", "t">>,
      <<"f", "l", "o", "a", "t">>,
      <<"s", "t", "r", "i", "n", "g">>,
      <<"b", "o", "o", "l">>,
      <<"a">>,
      <<"s", "t", "r", "i", "n", "g", "s">>,
      <<"x", " ", "=", " ", "s", "t", "r", "i", "n", "g">>,
      <<"f", "l", "o", "a", "t", ";">>,
      <<"\"", "s", "t", "r", "i", "n", "g", "\"">>,
      <<"\"", "f", "l", "o", "a", "t", "\"">>,
      <<"\"", "a", "\"">>,
      <<"0", ".", "5">>,
      <<"1">>,
      <<"1", ".">>,
      <<"s", "t", "r", "i", "n", "g", "(", "1", ")">>,
      <<"r", "e", "t", "u", "r", "n", " ", "f", "l", "o", "a", "t">> }

WordInit ==
    /\ source \in WordSources
    /\ position = 0
    /\ line = 1
    /\ column = 1
    /\ tokens = <<>>
    /\ calls = <<>>
    /\ lexDone = FALSE
    /\ earlier = NoText

(***************************************************************************)
(* Taking the comments out of a text.  The comments of a text are the      *)
(* stretches skipWhitespaceAndComments passes over that are not white      *)
(* space: from // up to the end of the line, and from the opening of a     *)
(* block comment to its closing or to the end of the text.  What was       *)
(* skipped before each token lies between the offsets `before` and `first` *)
(* of the call that scanned it; filler is what is put in a comment's       *)
(* place.                                                                  *)
(***************************************************************************)
RECURSIVE stripSkipped(_, _, _)
stripSkipped(i, hi, filler) ==
    IF i >= hi THEN <<>>
    ELSE IF isspace(CharAt(i))
    THEN <<CharAt(i)>> \o stripSkipped(i + 1, hi, filler)
    ELSE LET body == [position |-> i + 2, line |-> 1, column |-> 1]
             end == IF CharAt(i + 1) = "/"
                    THEN skipLineComment(body)
                    ELSE skipBlockComment(body)
         IN filler \o stripSkipped(end.position, hi, filler)

RECURSIVE stripComments(_, _)
stripComments(k, filler) ==
    IF k > Len(calls) THEN <<>>
    ELSE stripSkipped(calls[k].before, calls[k].first, filler)
         \o SubSeq(source, calls[k].first + 1, calls[k].after)
         \o stripComments(k + 1, filler)

\* Texts with comments: up to MaxPieces pieces, each a token, white space,
\* a comment, the opening of a comment or of a string.
MaxPieces == 3

Pieces ==
    {<<"a">>, <<"=">>, <<" ">>, <<"\n">>, <<"\"">>,
     <<"/", "*", "*", "/">>, <<"/", "/", "a">>, <<"/", "*">>}

RECURSIVE Joined(_)
Joined(pieces) == IF pieces = <<>> THEN <<>> ELSE Head(pieces) \o Joined(Tail(pieces))

CommentedInit ==
    /\ \E n \in 0..MaxPieces : \E pieces \in [1..n -> Pieces] : source = Joined(pieces)
    /\ position = 0
    /\ line = 1
    /\ column = 1
    /\ tokens = <<>>
    /\ calls = <<>>
    /\ lexDone = FALSE
    /\ earlier = NoText

Fillers == {<<>>, <<" ">>}

\* A second Lexer, constructed on the text just tokenized with its comments
\* taken out, about to be tokenized in its turn.
TokenizeStripped ==
    /\ lexDone
    /\ earlier = NoText
    /\ \E filler \in Fillers :
          /\ source' = stripComments(1, filler)
          /\ earlier' = [source |-> source, tokens |-> tokens, filler |-> filler]
    /\ position' = 0
    /\ line' = 1
    /\ column' = 1
    /\ tokens' = <<>>
    /\ calls' = <<>>
    /\ lexDone' = FALSE


(***************************************************************************)
(* The parser.  AST nodes are records of one shape: type names the node    *)
(* class, op holds a TokenType (operators), text a lexeme (names, string   *)
(* values), num a number (NumberNode, BooleanNode), params the parameter   *)
(* names of a function and kids the child nodes in constructor order.      *)
(***************************************************************************)
Node(type, op, text, num, params, kids) ==
    [type |-> type, op |-> op, text |-> text, num |-> num,
     params |-> params, kids |-> kids]

\* A null std::unique_ptr<ASTNode>.
NullPtr == Node("nullptr", "", <<>>, 0, <<>>, <<>>)

NumberNode(n) == Node("Number", "", <<>>, n, <<>>, <<>>)
StringNode(v) == Node("String", "", v, 0, <<>>, <<>>)
VariableNode(name) == Node("Variable", "", name, 0, <<>>, <<>>)
BooleanNode(b) == Node("Boolean", "", <<>>, IF b THEN 1 ELSE 0, <<>>, <<>>)
NullNode == Node("Null", "", <<>>, 0, <<>>, <<>>)
ArrayNode(elements) == Node("Array", "", <<>>, 0, <<>>, elements)
BinaryOpNode(left, op, right) == Node("BinaryOp", op, <<>>, 0, <<>>, <<left, right>>)
UnaryOpNode(op, expr) == Node("UnaryOp", op, <<>>, 0, <<>>, <<expr>>)
CallNode(callee, args) == Node("Call", "", <<>>, 0, <<>>, <<callee>> \o args)
IndexNode(array, index) == Node("Index", "", <<>>, 0, <<>>, <<array, index>>)
AssignmentNode(name, value) == Node("Assignment", "", name, 0, <<>>, <<value>>)
IfNode(condition, thenBranch, elseBranch) ==
    Node("If", "", <<>>, 0, <<>>, <<condition, thenBranch, elseBranch>>)
WhileNode(condition, body) == Node("While", "", <<>>, 0, <<>>, <<condition, body>>)
ForNode(init, condition, increment, body) ==
    Node("For", "", <<>>, 0, <<>>, <<init, condition, increment, body>>)
FunctionNode(name, params, body) == Node("Function", "", name, 0, params, <<body>>)
ReturnNode(value) == Node("Return", "", <<>>, 0, <<>>, <<value>>)
BlockNode(statements) == Node("Block", "", <<>>, 0, <<>>, statements)
ProgramNode(statements) == Node("Program", "", <<>>, 0, <<>>, statements)

\* What a parse function leaves: the node it returned and Parser::current
\* after it, or the message of the exception it raised.
Parsed(node, cur) == [ok |-> TRUE, node |-> node, cur |-> cur, err |-> ""]
Raised(message, cur) == [ok |-> FALSE, node |-> NullPtr, cur |-> cur, err |-> message]

\* An empty std::vector: the nodes (kids) and the strings (params) that a
\* function's local vectors hold.
Vector == Node("vector", "", <<>>, 0, <<>>, <<>>)

parserPeek(cur) ==
    IF cur >= Len(ptokens)
    THEN [type |-> "END_OF_FILE", value |-> <<>>, line |-> 0]
    ELSE ptokens[cur + 1]

parserIsAtEnd(cur) == cur >= Len(ptokens) \/ parserPeek(cur).type = "END_OF_FILE"

check(cur, type) == IF parserIsAtEnd(cur) THEN FALSE ELSE parserPeek(cur).type = type

\* Parser::current after advance().
parserAdvance(cur) == IF ~parserIsAtEnd(cur) THEN cur + 1 ELSE cur

\* tokens[current - 1]
previous(cur) == ptokens[cur]

\* Parser::current after match(type); match returned TRUE iff check(cur, type).
match(cur, type) == IF check(cur, type) THEN parserAdvance(cur) ELSE cur

\* consume(type, message) as a function's first statement: the cursor after
\* it and the function's local vectors, still empty, or the exception.  The
\* message's " at line N" suffix is left out of err.
consume(cur, type, message) ==
    IF check(cur, type) THEN Parsed(Vector, parserAdvance(cur)) ELSE Raised(message, cur)

\* std::stod of a NUMBER lexeme: the decimal digits, or after 0x / 0X the
\* hexadecimal digits (none: the value of the leading 0).
HexValue(c) ==
    CASE c \in Digits -> CHOOSE n \in 0..9 : ToString(n) = c
      [] c \in {"a", "A"} -> 10
      [] c \in {"b", "B"} -> 11
      [] c \in {"c", "C"} -> 12
      [] c \in {"d", "D"} -> 13
      [] c \in {"e", "E"} -> 14
      [] c \in {"f", "F"} -> 15

RECURSIVE stodDigits(_, _, _, _)
stodDigits(value, i, base, acc) ==
    IF i <= Len(value) /\ (IF base = 16 THEN isxdigit(value[i]) ELSE isdigit(value[i]))
    THEN stodDigits(value, i + 1, base, acc * base + HexValue(value[i]))
    ELSE acc

\* TRUE iff std::stod raises std::invalid_argument: no digit to convert.
stodRaises(value) == Len(value) = 0 \/ ~isdigit(value[1])

stod(value) ==
    IF Len(value) >= 2 /\ value[1] = "0" /\ value[2] \in {"x", "X"}
    THEN stodDigits(value, 3, 16, 0)
    ELSE stodDigits(value, 1, 10, 0)

RECURSIVE parseAssignment(_), parseLogicalOr(_), parseLogicalOrLoop(_),
          parseLogicalAnd(_), parseLogicalAndLoop(_),
          parseEquality(_), parseEqualityLoop(_),
          parseRelational(_), parseRelationalLoop(_),
          parseAdditive(_), parseAdditiveLoop(_),
          parseMultiplicative(_), parseMultiplicativeLoop(_),
          parseUnary(_), parsePostfix(_), parsePostfixLoop(_),
          parsePrimary(_), parseExpressionList(_)

parseExpression(cur) == parseAssignment(cur)

\* The statement after r, a step of a function whose earlier steps left r:
\* an exception raised earlier is still the outcome.
\* consume(type, message) after r.
thenConsume(r, type, message) ==
    IF ~r.ok THEN r
    ELSE IF check(r.cur, type) THEN Parsed(r.node, parserAdvance(r.cur))
    ELSE Raised(message, r.cur)

\* push_back(e) on the vector that r collects, unless e raised.
push(r, e) ==
    IF ~e.ok THEN e ELSE Parsed([r.node EXCEPT !.kids = Append(@, e.node)], e.cur)

\* do { list.push_back(parseExpression()); } while (match(COMMA));
parseExpressionListLoop(r) ==
    IF ~r.ok THEN r
    ELSE IF check(r.cur, "COMMA")
    THEN parseExpressionList(Parsed(r.node, parserAdvance(r.cur)))
    ELSE r

parseExpressionList(r) == parseExpressionListLoop(push(r, parseExpression(r.cur)))

\* if (!check(closing)) { do ... while }
parseOptionalList(cur, closing) ==
    IF ~check(cur, closing)
    THEN parseExpressionList(Parsed(Vector, cur))
    ELSE Parsed(Vector, cur)

\* make_unique<BinaryOpNode>(move(expr), op.type, move(right))
BinaryOpResult(expr, op, right) ==
    IF ~right.ok THEN right
    ELSE Parsed(BinaryOpNode(expr.node, op, right.node), right.cur)

assignAnyTarget(expr, value) ==
    IF ~value.ok THEN value
    ELSE Parsed(AssignmentNode(expr.node.text, value.node), value.cur)

\* if (auto* var = dynamic_cast<VariableNode*>(expr.get())) return Assignment;
\* throw std::runtime_error("Invalid assignment target");
assignTarget(expr, value) ==
    IF ~value.ok THEN value
    ELSE IF expr.node.type = "Variable"
    THEN Parsed(AssignmentNode(expr.node.text, value.node), value.cur)
    ELSE Raised("Invalid assignment target", value.cur)

parseAssignmentRest(expr) ==
    IF ~expr.ok THEN expr
    ELSE IF check(expr.cur, "ASSIGN")
    THEN assignTarget(expr, parseAssignment(parserAdvance(expr.cur)))
    ELSE expr

parseAssignment(cur) == parseAssignmentRest(parseLogicalOr(cur))

\* while (match(OR)) { op = previous(); right = parseLogicalAnd(); expr = BinaryOp }
parseLogicalOrLoop(expr) ==
    IF ~expr.ok THEN expr
    ELSE IF check(expr.cur, "OR")
    THEN parseLogicalOrLoop(BinaryOpResult(expr, parserPeek(expr.cur).type,
                                           parseLogicalAnd(parserAdvance(expr.cur))))
    ELSE expr

parseLogicalOr(cur) == parseLogicalOrLoop(parseLogicalAnd(cur))

parseLogicalAndLoop(expr) ==
    IF ~expr.ok THEN expr
    ELSE IF check(expr.cur, "AND")
    THEN parseLogicalAndLoop(BinaryOpResult(expr, parserPeek(expr.cur).type,
                                            parseEquality(parserAdvance(expr.cur))))
    ELSE expr

parseLogicalAnd(cur) == parseLogicalAndLoop(parseEquality(cur))

parseEqualityLoop(expr) ==
    IF ~expr.ok THEN expr
    ELSE IF check(expr.cur, "EQUAL_EQUAL") \/ check(expr.cur, "NOT_EQUAL")
    THEN parseEqualityLoop(BinaryOpResult(expr, parserPeek(expr.cur).type,
                                          parseRelational(parserAdvance(expr.cur))))
    ELSE expr

parseEquality(cur) == parseEqualityLoop(parseRelational(cur))

parseRelationalLoop(expr) ==
    IF ~expr.ok THEN expr
    ELSE IF \/ check(expr.cur, "LESS") \/ check(expr.cur, "LESS_EQUAL")
            \/ check(expr.cur, "GREATER") \/ check(expr.cur, "GREATER_EQUAL")
    THEN parseRelationalLoop(BinaryOpResult(expr, parserPeek(expr.cur).type,
                                            parseAdditive(parserAdvance(expr.cur))))
    ELSE expr

parseRelational(cur) == parseRelationalLoop(parseAdditive(cur))

parseAdditiveLoopRightAssoc(expr) ==
    IF ~expr.ok THEN expr
    ELSE IF check(expr.cur, "PLUS") \/ check(expr.cur, "MINUS")
    THEN BinaryOpResult(expr, parserPeek(expr.cur).type,
                        parseAdditive(parserAdvance(expr.cur)))
    ELSE expr

parseAdditiveLoop(expr) ==
    IF ~expr.ok THEN expr
    ELSE IF check(expr.cur, "PLUS") \/ check(expr.cur, "MINUS")
    THEN parseAdditiveLoop(BinaryOpResult(expr, parserPeek(expr.cur).type,
                                          parseMultiplicative(parserAdvance(expr.cur))))
    ELSE expr

parseAdditive(cur) == parseAdditiveLoop(parseMultiplicative(cur))

parseMultiplicativeLoop(expr) ==
    IF ~expr.ok THEN expr
    ELSE IF \/ check(expr.cur, "MULTIPLY") \/ check(expr.cur, "DIVIDE")
            \/ check(expr.cur, "MODULO")
    THEN parseMultiplicativeLoop(BinaryOpResult(expr, parserPeek(expr.cur).type,
                                                parseUnary(parserAdvance(expr.cur))))
    ELSE expr

parseMultiplicative(cur) == parseMultiplicativeLoop(parseUnary(cur))

\* make_unique<UnaryOpNode>(op.type, move(expr))
UnaryOpResult(op, expr) ==
    IF ~expr.ok THEN expr ELSE Parsed(UnaryOpNode(op, expr.node), expr.cur)

parseUnary(cur) ==
    IF check(cur, "NOT") \/ check(cur, "MINUS")
    THEN UnaryOpResult(parserPeek(cur).type, parseUnary(parserAdvance(cur)))
    ELSE parsePostfix(cur)

\* make_unique<CallNode>(move(expr), move(args))
CallResult(expr, args) ==
    IF ~args.ok THEN args ELSE Parsed(CallNode(expr.node, args.node.kids), args.cur)

\* make_unique<IndexNode>(move(expr), move(index))
IndexResult(expr, index) ==
    IF ~index.ok THEN index ELSE Parsed(IndexNode(expr.node, index.node), index.cur)

parsePostfixLoop(expr) ==
    IF ~expr.ok THEN expr
    ELSE IF check(expr.cur, "LEFT_PAREN")
    THEN parsePostfixLoop(CallResult(expr,
             thenConsume(parseOptionalList(parserAdvance(expr.cur), "RIGHT_PAREN"),
                         "RIGHT_PAREN", "Expected ')' after arguments")))
    ELSE IF check(expr.cur, "LEFT_BRACKET")
    THEN parsePostfixLoop(IndexResult(expr,
             thenConsume(parseExpression(parserAdvance(expr.cur)),
                         "RIGHT_BRACKET", "Expected ']' after array index")))
    ELSE expr

parsePostfix(cur) == parsePostfixLoop(parsePrimary(cur))

\* make_unique<ArrayNode>(move(elements))
ArrayResult(elements) ==
    IF ~elements.ok THEN elements
    ELSE Parsed(ArrayNode(elements.node.kids), elements.cur)

parsePrimary(cur) ==
    IF check(cur, "NUMBER")
    THEN IF stodRaises(parserPeek(cur).value)
         THEN Raised("stod", parserAdvance(cur))
         ELSE Parsed(NumberNode(stod(parserPeek(cur).value)), parserAdvance(cur))
    ELSE IF check(cur, "STRING")
    THEN Parsed(StringNode(parserPeek(cur).value), parserAdvance(cur))
    ELSE IF check(cur, "IDENTIFIER")
    THEN Parsed(VariableNode(parserPeek(cur).value), parserAdvance(cur))
    ELSE IF check(cur, "TRUE") THEN Parsed(BooleanNode(TRUE), parserAdvance(cur))
    ELSE IF check(cur, "FALSE") THEN Parsed(BooleanNode(FALSE), parserAdvance(cur))
    ELSE IF check(cur, "NULL_TOKEN") THEN Parsed(NullNode, parserAdvance(cur))
    ELSE IF check(cur, "LEFT_PAREN")
    THEN thenConsume(parseExpression(parserAdvance(cur)),
                     "RIGHT_PAREN", "Expected ')' after expression")
    ELSE IF check(cur, "LEFT_BRACKET")
    THEN ArrayResult(thenConsume(parseOptionalList(parserAdvance(cur), "RIGHT_BRACKET"),
                                 "RIGHT_BRACKET", "Expected ']' after array elements"))
    ELSE Raised("Unexpected token", cur)

RECURSIVE parseStatement(_), parseIfStatement(_), parseWhileStatement(_),
          parseForStatement(_), parseFunctionDeclaration(_), parseBlock(_),
          parseBlockLoop(_), skipNewlines(_)

\* while (match(TokenType::NEWLINE)) {}
skipNewlines(cur) ==
    IF check(cur, "NEWLINE") THEN skipNewlines(parserAdvance(cur)) ELSE cur

\* if (match(SEMICOLON) || match(NEWLINE)) {}
matchTerminator(r) ==
    IF ~r.ok THEN r
    ELSE IF check(r.cur, "SEMICOLON") THEN Parsed(r.node, parserAdvance(r.cur))
    ELSE Parsed(r.node, match(r.cur, "NEWLINE"))

\* auto x = parseExpression(); after r, x kept with the locals r collects.
thenExpression(r) == IF ~r.ok THEN r ELSE push(r, parseExpression(r.cur))

\* auto x = parseStatement(); after r.
thenStatement(r) == IF ~r.ok THEN r ELSE push(r, parseStatement(r.cur))

\* x = nullptr; if (!check(stop)) x = parseExpression(); after r.
thenOptionalExpression(r, stop) ==
    IF ~r.ok THEN r
    ELSE IF ~check(r.cur, stop) THEN push(r, parseExpression(r.cur))
    ELSE push(r, Parsed(NullPtr, r.cur))

parseExpressionStatement(cur) == matchTerminator(parseExpression(cur))

\* value = nullptr; if (!check(SEMICOLON) && !check(NEWLINE) && !isAtEnd()) ...
thenReturnValue(r) ==
    IF ~r.ok THEN r
    ELSE IF ~check(r.cur, "SEMICOLON") /\ ~check(r.cur, "NEWLINE") /\ ~parserIsAtEnd(r.cur)
    THEN push(r, parseExpression(r.cur))
    ELSE push(r, Parsed(NullPtr, r.cur))

ReturnResult(r) == IF ~r.ok THEN r ELSE Parsed(ReturnNode(r.node.kids[1]), r.cur)

parseReturnStatement(cur) ==
    ReturnResult(matchTerminator(thenReturnValue(
        consume(cur, "RETURN", "Expected 'return'"))))

\* elseBranch = nullptr; if (match(ELSE)) elseBranch = parseStatement();
thenElseBranch(r) ==
    IF ~r.ok THEN r
    ELSE IF check(r.cur, "ELSE")
    THEN push(r, parseStatement(parserAdvance(r.cur)))
    ELSE push(r, Parsed(NullPtr, r.cur))

IfResult(r) ==
    IF ~r.ok THEN r
    ELSE Parsed(IfNode(r.node.kids[1], r.node.kids[2], r.node.kids[3]), r.cur)

parseIfStatement(cur) ==
    IfResult(thenElseBranch(thenStatement(
        thenConsume(thenExpression(
            thenConsume(consume(cur, "IF", "Expected 'if'"),
                        "LEFT_PAREN", "Expected '(' after 'if'")),
            "RIGHT_PAREN", "Expected ')' after if condition"))))

WhileResult(r) ==
    IF ~r.ok THEN r ELSE Parsed(WhileNode(r.node.kids[1], r.node.kids[2]), r.cur)

parseWhileStatement(cur) ==
    WhileResult(thenStatement(
        thenConsume(thenExpression(
            thenConsume(consume(cur, "WHILE", "Expected 'while'"),
                        "LEFT_PAREN", "Expected '(' after 'while'")),
            "RIGHT_PAREN", "Expected ')' after while condition")))

ForResult(r) ==
    IF ~r.ok THEN r
    ELSE Parsed(ForNode(r.node.kids[1], r.node.kids[2], r.node.kids[3], r.node.kids[4]),
                r.cur)

parseForStatement(cur) ==
    ForResult(thenStatement(
        thenConsume(thenOptionalExpression(
            thenConsume(thenOptionalExpression(
                thenConsume(thenOptionalExpression(
                    thenConsume(consume(cur, "FOR", "Expected 'for'"),
                                "LEFT_PAREN", "Expected '(' after 'for'"),
                    "SEMICOLON"),
                    "SEMICOLON", "Expected ';' after for loop initializer"),
                "SEMICOLON"),
                "SEMICOLON", "Expected ';' after for loop condition"),
            "RIGHT_PAREN"),
            "RIGHT_PAREN", "Expected ')' after for clauses")))

\* Token t = consume(IDENTIFIER, message); after r, t.value kept with the
\* strings r collects.
thenName(r, message) ==
    IF ~r.ok THEN r
    ELSE IF check(r.cur, "IDENTIFIER")
    THEN Parsed([r.node EXCEPT !.params = Append(@, parserPeek(r.cur).value)],
                parserAdvance(r.cur))
    ELSE Raised(message, r.cur)

\* do { params->push_back(consume(IDENTIFIER, ...).value); } while (match(COMMA));
RECURSIVE parseParameters(_)
parseParametersLoop(r) ==
    IF ~r.ok THEN r
    ELSE IF check(r.cur, "COMMA")
    THEN parseParameters(Parsed(r.node, parserAdvance(r.cur)))
    ELSE r

parseParameters(r) == parseParametersLoop(thenName(r, "Expected parameter name"))

\* if (!check(RIGHT_PAREN)) { do ... while }
thenParameters(r) ==
    IF ~r.ok THEN r
    ELSE IF ~check(r.cur, "RIGHT_PAREN") THEN parseParameters(r)
    ELSE r

\* auto body = parseBlock(); after r.
thenBlock(r) == IF ~r.ok THEN r ELSE push(r, parseBlock(r.cur))

\* r collected name.value and then the parameters' names, and the body.
FunctionResult(r) ==
    IF ~r.ok THEN r
    ELSE Parsed(FunctionNode(Head(r.node.params), Tail(r.node.params), r.node.kids[1]),
                r.cur)

parseFunctionDeclaration(cur) ==
    FunctionResult(thenBlock(
        thenConsume(thenParameters(
            thenConsume(thenName(consume(cur, "FUNCTION", "Expected 'function'"),
                                 "Expected function name"),
                        "LEFT_PAREN", "Expected '(' after function name")),
            "RIGHT_PAREN", "Expected ')' after parameters")))

\* while (!check(RIGHT_BRACE) && !isAtEnd()) statements->push_back(parseStatement());
parseBlockLoop(r) ==
    IF ~r.ok THEN r
    ELSE IF ~check(r.cur, "RIGHT_BRACE") /\ ~parserIsAtEnd(r.cur)
    THEN parseBlockLoop(push(r, parseStatement(r.cur)))
    ELSE r

BlockResult(r) == IF ~r.ok THEN r ELSE Parsed(BlockNode(r.node.kids), r.cur)

parseBlock(cur) ==
    BlockResult(thenConsume(parseBlockLoop(consume(cur, "LEFT_BRACE", "Expected '{'")),
                            "RIGHT_BRACE", "Expected '}'"))

\* dispatchStatement returning an empty statement at the end of the input.
dispatchStatementAtEnd(cur) ==
    IF parserIsAtEnd(cur) THEN Parsed(NullNode, cur)
    ELSE CASE parserPeek(cur).type = "IF" -> parseIfStatement(cur)
           [] parserPeek(cur).type = "WHILE" -> parseWhileStatement(cur)
           [] parserPeek(cur).type = "FOR" -> parseForStatement(cur)
           [] parserPeek(cur).type = "FUNCTION" -> parseFunctionDeclaration(cur)
           [] parserPeek(cur).type = "RETURN" -> parseReturnStatement(cur)
           [] parserPeek(cur).type = "LEFT_BRACE" -> parseBlock(cur)
           [] OTHER -> parseExpressionStatement(cur)

\* switch (peek().type) of parseStatement.
dispatchStatement(cur) ==
    IF parserIsAtEnd(cur) THEN Raised("Unexpected end of input", cur)
    ELSE CASE parserPeek(cur).type = "IF" -> parseIfStatement(cur)
           [] parserPeek(cur).type = "WHILE" -> parseWhileStatement(cur)
           [] parserPeek(cur).type = "FOR" -> parseForStatement(cur)
           [] parserPeek(cur).type = "FUNCTION" -> parseFunctionDeclaration(cur)
           [] parserPeek(cur).type = "RETURN" -> parseReturnStatement(cur)
           [] parserPeek(cur).type = "LEFT_BRACE" -> parseBlock(cur)
           [] OTHER -> parseExpressionStatement(cur)

parseStatement(cur) == dispatchStatement(skipNewlines(cur))

\* while (!isAtEnd()) statements->push_back(parseStatement());
RECURSIVE parseProgramLoop(_)
parseProgramLoop(r) ==
    IF ~r.ok THEN r
    ELSE IF ~parserIsAtEnd(r.cur)
    THEN parseProgramLoop(push(r, parseStatement(r.cur)))
    ELSE r

ProgramResult(r) == IF ~r.ok THEN r ELSE Parsed(ProgramNode(r.node.kids), r.cur)

parseProgram == ProgramResult(parseProgramLoop(Parsed(Vector, 0)))

\* parse(): the Program, or the exception re-raised to the caller.
parse ==
    IF Len(ptokens) = 0 THEN Raised("No tokens provided", 0) ELSE parseProgram

(***************************************************************************)
(* The parser's inputs: token vectors as a lexer hands them over, each     *)
(* closed by END_OF_FILE.  Identifiers and numbers get a lexeme that tells *)
(* their position, so that a tree shows which operand went where.          *)
(***************************************************************************)
MaxOperands == 3
MaxTokens == 4
MaxNesting == 2

BinaryTypes == {"OR", "AND", "EQUAL_EQUAL", "NOT_EQUAL", "LESS", "LESS_EQUAL",
                "GREATER", "GREATER_EQUAL", "PLUS", "MINUS", "MULTIPLY",
                "DIVIDE", "MODULO"}
InfixTypes == BinaryTypes \cup {"ASSIGN"}
MixedTypes == {"IDENTIFIER", "NUMBER", "MINUS", "NOT", "MULTIPLY", "ASSIGN",
               "LEFT_PAREN", "RIGHT_PAREN", "LEFT_BRACKET", "RIGHT_BRACKET"}

NameAt(i) == <<"a", "b", "c", "d", "e", "f", "g", "h", "i", "j", "k", "l">>[i]
DigitAt(i) == <<"1", "2", "3", "4", "5", "6", "7", "8", "9", "1", "2", "3">>[i]

LexemeAt(type, i) ==
    CASE type = "IDENTIFIER" -> <<NameAt(i)>>
      [] type = "NUMBER" -> <<DigitAt(i)>>
      [] type = "ERROR" -> <<"@">>
      [] type = "FLOAT" -> <<"0", ".", "5">>
      [] type = "CHAR" -> <<"c">>
      [] type = "STRING" -> <<"s">>
      [] OTHER -> <<>>

MkTokens(types) ==
    [i \in 1..Len(types) |->
        [type |-> types[i], value |-> LexemeAt(types[i], i), line |-> 1]]
    \o <<[type |-> "END_OF_FILE", value |-> <<>>, line |-> 1]>>

\* operand (operator operand)*
Interleave(ops) ==
    [i \in 1..(2 * Len(ops) + 1) |->
        IF i % 2 = 1 THEN "IDENTIFIER" ELSE ops[i \div 2]]

InfixInputs ==
    { Interleave(ops) : ops \in UNION {[1..n -> InfixTypes] : n \in 0..(MaxOperands - 1)} }

\* The opening parentheses and brackets of a token vector.
Nesting(types) ==
    Cardinality({i \in 1..Len(types) : types[i] \in {"LEFT_PAREN", "LEFT_BRACKET"}})

MixedInputs ==
    { types \in UNION {[1..n -> MixedTypes] : n \in 1..MaxTokens} :
        Nesting(types) <= MaxNesting }

TargetInputs ==
    { <<"IDENTIFIER", "LEFT_PAREN", "RIGHT_PAREN", "ASSIGN", "IDENTIFIER">>,
      <<"IDENTIFIER", "LEFT_BRACKET", "NUMBER", "RIGHT_BRACKET", "ASSIGN", "IDENTIFIER">>,
      <<"LEFT_PAREN", "IDENTIFIER", "PLUS", "IDENTIFIER", "RIGHT_PAREN", "ASSIGN",
        "IDENTIFIER">>,
      <<"LEFT_PAREN", "IDENTIFIER", "RIGHT_PAREN", "ASSIGN", "IDENTIFIER">>,
      <<"IDENTIFIER", "ASSIGN", "IDENTIFIER", "LEFT_PAREN", "IDENTIFIER", "COMMA",
        "NUMBER", "RIGHT_PAREN">>,
      <<"LEFT_BRACKET", "IDENTIFIER", "COMMA", "NUMBER", "RIGHT_BRACKET", "ASSIGN",
        "IDENTIFIER">> }

StatementInputs ==
    { <<"IF", "LEFT_PAREN", "IDENTIFIER", "RIGHT_PAREN", "IDENTIFIER", "ELSE",
        "IDENTIFIER">>,
      <<"WHILE", "LEFT_PAREN", "IDENTIFIER", "RIGHT_PAREN", "LEFT_BRACE",
        "IDENTIFIER", "SEMICOLON", "RIGHT_BRACE">>,
      <<"FOR", "LEFT_PAREN", "SEMICOLON", "SEMICOLON", "RIGHT_PAREN", "IDENTIFIER">>,
      <<"FOR", "LEFT_PAREN", "SEMICOLON", "SEMICOLON", "RIGHT_PAREN", "LEFT_BRACE",
        "RIGHT_BRACE">>,
      <<"FUNCTION", "IDENTIFIER", "LEFT_PAREN", "IDENTIFIER", "COMMA", "IDENTIFIER",
        "RIGHT_PAREN", "LEFT_BRACE", "RETURN", "IDENTIFIER", "SEMICOLON",
        "RIGHT_BRACE">>,
      <<"NEWLINE", "RETURN", "NEWLINE">>,
      <<"IDENTIFIER", "SEMICOLON", "IDENTIFIER">> }

\* Token vectors of sources with a byte the lexer knows no token for (it
\* hands an ERROR token over), and of sources whose last line ends in a
\* newline.
ErrorInputs ==
    { <<"ERROR">>,
      <<"IDENTIFIER", "ERROR">>,
      <<"IDENTIFIER", "PLUS", "ERROR">>,
      <<"IDENTIFIER", "SEMICOLON", "ERROR", "IDENTIFIER">>,
      <<"LEFT_PAREN", "IDENTIFIER", "ERROR", "RIGHT_PAREN">>,
      <<"IDENTIFIER", "LEFT_PAREN", "IDENTIFIER", "ERROR">>,
      <<"IF", "ERROR", "LEFT_PAREN", "IDENTIFIER", "RIGHT_PAREN", "IDENTIFIER">>,
      <<"LEFT_BRACE", "IDENTIFIER", "ERROR", "RIGHT_BRACE">>,
      <<"FUNCTION", "ERROR">>,
      <<"IDENTIFIER", "SEMICOLON", "NEWLINE">>,
      <<"IDENTIFIER", "NEWLINE", "IDENTIFIER", "NEWLINE">> }

\* The literal token kinds of the lexer (scanNumber gives NUMBER and FLOAT,
\* scanString STRING, scanCharacter CHAR), each as a whole expression and
\* as an operand.
LiteralTypes == {"NUMBER", "FLOAT", "STRING", "CHAR"}

LiteralInputs ==
    { <<t>> : t \in LiteralTypes }
    \cup { <<t, "SEMICOLON">> : t \in LiteralTypes }
    \cup { <<"IDENTIFIER", "PLUS", t>> : t \in LiteralTypes }

TokenVectors ==
    {<<>>} \cup { MkTokens(types) :
                    types \in InfixInputs \cup MixedInputs \cup TargetInputs
                              \cup StatementInputs \cup ErrorInputs
                              \cup LiteralInputs }

\* The value of `pearlier` while ptokens is a vector as it was handed over.
NoParse == [tokens |-> <<>>, result |-> Raised("", 0)]

ParseInit ==
    /\ ptokens \in TokenVectors
    /\ presult = [ok |-> FALSE, node |-> NullPtr, cur |-> 0, err |-> ""]
    /\ pstage = "ready"
    /\ pearlier = NoParse

\* Parser parser(tokens); auto ast = parser.parse();
Parse ==
    /\ pstage = "ready"
    /\ presult' = parse
    /\ pstage' = "done"
    /\ UNCHANGED <<ptokens, pearlier>>

(***************************************************************************)
(* Statements with and without their terminator.  Each of the statements   *)
(* below ends in ';' and stands at the end of the input or of a block; the *)
(* second parse is of the same tokens with that ';' taken out.             *)
(***************************************************************************)
TerminatedStatements ==
    { <<"IDENTIFIER", "SEMICOLON">>,
      <<"IDENTIFIER", "PLUS", "NUMBER", "SEMICOLON">>,
      <<"IDENTIFIER", "ASSIGN", "IDENTIFIER", "SEMICOLON">>,
      <<"IDENTIFIER", "LEFT_PAREN", "RIGHT_PAREN", "SEMICOLON">>,
      <<"RETURN", "SEMICOLON">>,
      <<"RETURN", "IDENTIFIER", "SEMICOLON">>,
      <<"RETURN", "IDENTIFIER", "PLUS", "NUMBER", "SEMICOLON">>,
      <<"IDENTIFIER", "SEMICOLON", "RETURN", "SEMICOLON">>,
      <<"ERROR", "SEMICOLON">>,
      <<"SEMICOLON">> }

StatementOpenings ==
    { <<>>,
      <<"LEFT_BRACE">>,
      <<"FUNCTION", "IDENTIFIER", "LEFT_PAREN", "RIGHT_PAREN", "LEFT_BRACE">>,
      <<"WHILE", "LEFT_PAREN", "IDENTIFIER", "RIGHT_PAREN", "LEFT_BRACE">>,
      <<"IF", "LEFT_PAREN", "IDENTIFIER", "RIGHT_PAREN", "LEFT_BRACE">>,
      <<"IDENTIFIER", "SEMICOLON", "LEFT_BRACE">> }

TerminatedInputs ==
    { opening \o statement \o (IF opening = <<>> THEN <<>> ELSE <<"RIGHT_BRACE">>) :
        opening \in StatementOpenings, statement \in TerminatedStatements }

TerminatedInit ==
    /\ ptokens \in { MkTokens(types) : types \in TerminatedInputs }
    /\ presult = [ok |-> FALSE, node |-> NullPtr, cur |-> 0, err |-> ""]
    /\ pstage = "ready"
    /\ pearlier = NoParse

\* The offsets of the ';' that stand directly before '}' or END_OF_FILE.
Terminators ==
    { i \in 1..(Len(ptokens) - 1) :
        /\ ptokens[i].type = "SEMICOLON"
        /\ ptokens[i + 1].type \in {"RIGHT_BRACE", "END_OF_FILE"} }

\* Parser parser(tokens) on the vector without one of its terminators.
ParseUnterminated ==
    /\ pstage = "done"
    /\ pearlier = NoParse
    /\ \E i \in Terminators :
          ptokens' = SubSeq(ptokens, 1, i - 1) \o SubSeq(ptokens, i + 1, Len(ptokens))
    /\ pearlier' = [tokens |-> ptokens, result |-> presult]
    /\ presult' = [ok |-> FALSE, node |-> NullPtr, cur |-> 0, err |-> ""]
    /\ pstage' = "ready"

(***************************************************************************)
(* The compiler (rplus::Compiler).  K is the Compiler object: its members, *)
(* the module that current_module_ points to, and in err the message of an *)
(* exception raised and not caught ("" while none is): every step after a  *)
(* raise is skipped, and the members stay as the raise found them.         *)
(* AST nodes are the records of Node, with the compiler's ASTNodeType in   *)
(* type; names and operators are strings.                                  *)
(***************************************************************************)
UINT32_MAX == -1
MAX_REGISTERS == 256

Instruction(opcode, operands) == [opcode |-> opcode, operands |-> operands]

\* BytecodeModule module;
BytecodeModule == [functions |-> <<>>, constants |-> <<>>, finalized |-> FALSE]

\* Compiler::Compiler().  allocations and trace are history: what each
\* call of allocateRegister found in the counter and left in it; and, in
\* the order of the calls, the label each genLabel returned, the label and
\* position of each markLabel, and the index in the current buffer at which
\* each emit put its instruction.
NewCompiler ==
    [current_function_ |-> "", current_bytecode_ |-> <<>>, current_register_ |-> 0,
     next_label_ |-> 0, label_positions_ |-> <<>>, scope_stack_ |-> <<>>,
     module |-> BytecodeModule, err |-> "", allocations |-> <<>>, trace |-> <<>>]

throw(K, message) == IF K.err # "" THEN K ELSE [K EXCEPT !.err = message]

\* current_register_ - 1 in uint32_t
lastRegister(K) ==
    IF K.current_register_ = 0 THEN UINT32_MAX ELSE K.current_register_ - 1

Traced(call, label, index) == [call |-> call, label |-> label, index |-> index]

emit(K, opcode, operands) ==
    IF K.err # "" THEN K
    ELSE [K EXCEPT !.current_bytecode_ = Append(@, Instruction(opcode, operands)),
                   !.trace = Append(@, Traced("emit", 0, Len(K.current_bytecode_)))]

allocateRegister(K) ==
    IF K.err # "" THEN K
    ELSE IF K.current_register_ < MAX_REGISTERS
    THEN [K EXCEPT !.current_register_ = @ + 1,
                   !.allocations = Append(@, <<K.current_register_,
                                               K.current_register_ + 1>>)]
    ELSE throw([K EXCEPT !.allocations = Append(@, <<K.current_register_,
                                                     K.current_register_>>)],
               "Register overflow: too many temporary values")

\* genLabel() returns next_label_ as it was and leaves it one higher.
genLabel(K) ==
    IF K.err # "" THEN K
    ELSE [K EXCEPT !.next_label_ = @ + 1,
                   !.trace = Append(@, Traced("genLabel", K.next_label_, 0))]

\* label_positions_[label] = current_bytecode_.size(): the map as the
\* sequence of its <<label, position>> entries, an entry replaced in place.
markLabel(K, label) ==
    IF K.err # "" THEN K
    ELSE IF \E i \in 1..Len(K.label_positions_) : K.label_positions_[i][1] = label
    THEN [K EXCEPT !.label_positions_ =
            [i \in 1..Len(K.label_positions_) |->
                IF K.label_positions_[i][1] = label
                THEN <<label, Len(K.current_bytecode_)>>
                ELSE K.label_positions_[i]],
                   !.trace = Append(@, Traced("markLabel", label, Len(K.current_bytecode_)))]
    ELSE [K EXCEPT !.label_positions_ = Append(@, <<label, Len(K.current_bytecode_)>>),
                   !.trace = Append(@, Traced("markLabel", label, Len(K.current_bytecode_)))]

\* FunctionScope(name, parameters): the parameters take the first slots.
FunctionScope(name, parameters) == [name |-> name, variables |-> parameters]

\* FunctionScope::lookupVariable
scopeLookupVariable(scope, name) ==
    IF \E i \in 1..Len(scope.variables) : scope.variables[i] = name
    THEN (CHOOSE i \in 1..Len(scope.variables) :
            /\ scope.variables[i] = name
            /\ \A j \in 1..(i - 1) : scope.variables[j] # name) - 1
    ELSE UINT32_MAX

lookupVariable(K, name) ==
    IF K.scope_stack_ # <<>>
    THEN scopeLookupVariable(K.scope_stack_[Len(K.scope_stack_)], name)
    ELSE UINT32_MAX

\* allocateVariable: the slot is the top scope's size before the call.
allocateVariable(K, name) ==
    IF K.err # "" THEN K
    ELSE IF K.scope_stack_ # <<>>
    THEN [K EXCEPT !.scope_stack_[Len(K.scope_stack_)].variables = Append(@, name)]
    ELSE throw(K, "No active scope for variable allocation")

pushScope(K, scope) ==
    IF K.err # "" THEN K ELSE [K EXCEPT !.scope_stack_ = Append(@, scope)]

popScope(K) ==
    IF K.err # "" THEN K
    ELSE IF K.scope_stack_ # <<>>
    THEN [K EXCEPT !.scope_stack_ = SubSeq(@, 1, Len(@) - 1)]
    ELSE K

\* BytecodeModule::addConstant: the index is the pool's size before the call.
addConstant(K, value) ==
    IF K.err # "" THEN K ELSE [K EXCEPT !.module.constants = Append(@, value)]

\* BytecodeModule::lookupFunction
lookupFunction(K, name) ==
    IF \E i \in 1..Len(K.module.functions) : K.module.functions[i].name = name
    THEN (CHOOSE i \in 1..Len(K.module.functions) :
            /\ K.module.functions[i].name = name
            /\ \A j \in 1..(i - 1) : K.module.functions[j].name # name) - 1
    ELSE UINT32_MAX

\* func.setBytecode(current_bytecode_); current_module_->registerFunction(func);
registerFunction(K, name, parameters) ==
    IF K.err # "" THEN K
    ELSE [K EXCEPT !.module.functions =
            Append(@, [name |-> name, parameters |-> parameters,
                       bytecode |-> K.current_bytecode_])]

\* BytecodeModule::finalize(): the module was never given a label, so it
\* has none to patch and none to find unresolved.
finalize(K) == IF K.err # "" THEN K ELSE [K EXCEPT !.module.finalized = TRUE]

binaryOpToOpCode(op) ==
    CASE op = "+" -> "Add" [] op = "-" -> "Sub" [] op = "*" -> "Mul"
      [] op = "/" -> "Div" [] op = "%" -> "Mod" [] op = "==" -> "Equal"
      [] op = "!=" -> "NotEqual" [] op = "<" -> "Less" [] op = "<=" -> "LessEqual"
      [] op = ">" -> "Greater" [] op = ">=" -> "GreaterEqual"
      [] op = "&&" -> "And" [] op = "||" -> "Or"
      [] OTHER -> "throw"

unaryOpToOpCode(op) ==
    CASE op = "-" -> "Neg" [] op = "!" -> "Not" [] OTHER -> "throw"

RECURSIVE visitNode(_, _), visitStatements(_, _, _)

\* for (const auto& stmt : statements) visitNode(*stmt); from the i-th on.
visitStatements(K, statements, i) ==
    IF K.err # "" \/ i > Len(statements) THEN K
    ELSE visitStatements(visitNode(K, statements[i]), statements, i + 1)

visitProgram(K, node) == visitStatements(K, node.kids, 1)

visitBlock(K, node) == visitStatements(K, node.kids, 1)

\* if (current_bytecode_.empty() || back().opcode() != Return) { LoadConst 0; Return }
appendReturn(K) ==
    IF K.err # "" THEN K
    ELSE IF \/ K.current_bytecode_ = <<>>
            \/ K.current_bytecode_[Len(K.current_bytecode_)].opcode # "Return"
    THEN emit(emit(K, "LoadConst", <<0>>), "Return", <<>>)
    ELSE K

\* current_function_ = prev_func; current_bytecode_.clear(); popScope();
leaveFunction(K, prev_func) ==
    IF K.err # "" THEN K
    ELSE popScope([K EXCEPT !.current_function_ = prev_func, !.current_bytecode_ = <<>>])

enterFunction(K, node) ==
    IF K.err # "" THEN K
    ELSE [pushScope(K, FunctionScope(node.text, node.params))
            EXCEPT !.current_function_ = node.text]

visitFunctionDef(K, node) ==
    leaveFunction(
        registerFunction(appendReturn(visitBlock(enterFunction(K, node), node.kids[1])),
                         node.text, node.params),
        K.current_function_)

\* emit(opcode, {left_reg, right_reg}) after the right operand; the opcode
\* is looked up, and the lookup may raise, before the emit.
binaryOpEmit(K, op, left_reg) ==
    IF K.err # "" THEN K
    ELSE IF binaryOpToOpCode(op) = "throw" THEN throw(K, "Unknown binary operator")
    ELSE emit(K, binaryOpToOpCode(op), <<left_reg, lastRegister(K)>>)

binaryOpRight(K, node) ==
    IF K.err # "" THEN K
    ELSE binaryOpEmit(visitNode(K, node.kids[2]), node.op, lastRegister(K))

visitBinaryOp(K, node) == binaryOpRight(visitNode(K, node.kids[1]), node)

unaryOpEmit(K, op) ==
    IF K.err # "" THEN K
    ELSE IF unaryOpToOpCode(op) = "throw" THEN throw(K, "Unknown unary operator")
    ELSE emit(K, unaryOpToOpCode(op), <<lastRegister(K)>>)

visitUnaryOp(K, node) == unaryOpEmit(visitNode(K, node.kids[1]), node.op)

\* node.value(): nil, or a number.
literalValue(node) ==
    [kind |-> IF node.op = "nil" THEN "nil" ELSE "number", num |-> node.num]

visitLiteral(K, node) ==
    allocateRegister(emit(addConstant(K, literalValue(node)), "LoadConst",
                          <<Len(K.module.constants)>>))

visitIdentifier(K, node) ==
    IF K.err # "" THEN K
    ELSE IF lookupVariable(K, node.text) # UINT32_MAX
    THEN allocateRegister(emit(K, "LoadVar", <<lookupVariable(K, node.text)>>))
    ELSE throw(K, "Undefined variable")

\* var_index: the slot found, or the slot allocateVariable hands out.
assignmentStore(K, name) ==
    IF K.err # "" THEN K
    ELSE IF lookupVariable(K, name) # UINT32_MAX
    THEN emit(K, "StoreVar", <<lookupVariable(K, name), lastRegister(K)>>)
    ELSE emit(allocateVariable(K, name), "StoreVar",
              <<IF K.scope_stack_ = <<>> THEN UINT32_MAX
                ELSE Len(K.scope_stack_[Len(K.scope_stack_)].variables),
                lastRegister(K)>>)

visitAssignment(K, node) == assignmentStore(visitNode(K, node.kids[1]), node.text)

\* markLabel(false_label); the else branch if present; markLabel(end_label).
ifElseBranch(K, node, false_label, end_label) ==
    IF K.err # "" THEN K
    ELSE IF Len(node.kids) = 3
    THEN markLabel(visitBlock(markLabel(K, false_label), node.kids[3]), end_label)
    ELSE markLabel(markLabel(K, false_label), end_label)

\* end_label = genLabel(); emit(Jump, {end_label});
ifAfterThen(K, node, false_label) ==
    IF K.err # "" THEN K
    ELSE ifElseBranch(emit(genLabel(K), "Jump", <<K.next_label_>>), node,
                      false_label, K.next_label_)

\* false_label = genLabel(); emit(JumpIfFalse, {cond_reg, false_label}); then branch.
ifAfterCondition(K, node) ==
    IF K.err # "" THEN K
    ELSE ifAfterThen(
            visitBlock(emit(genLabel(K), "JumpIfFalse", <<lastRegister(K), K.next_label_>>),
                       node.kids[2]),
            node, K.next_label_)

visitIfStatement(K, node) == ifAfterCondition(visitNode(K, node.kids[1]), node)

\* emit(Jump, {loop_label}); markLabel(exit_label);
loopClose(K, loop_label, exit_label) ==
    markLabel(emit(K, "Jump", <<loop_label>>), exit_label)

\* exit_label = genLabel(); emit(JumpIfFalse, {cond_reg, exit_label}); body.
whileAfterCondition(K, node, loop_label) ==
    IF K.err # "" THEN K
    ELSE loopClose(
            visitBlock(emit(genLabel(K), "JumpIfFalse", <<lastRegister(K), K.next_label_>>),
                       node.kids[2]),
            loop_label, K.next_label_)

visitWhileLoop(K, node) ==
    IF K.err # "" THEN K
    ELSE whileAfterCondition(visitNode(markLabel(genLabel(K), K.next_label_), node.kids[1]),
                             node, K.next_label_)

\* exit_label; JumpIfFalse; body; update; Jump; markLabel(exit_label); popScope().
forAfterCondition(K, node, loop_label) ==
    IF K.err # "" THEN K
    ELSE popScope(loopClose(
            visitNode(
                visitBlock(emit(genLabel(K), "JumpIfFalse",
                                <<lastRegister(K), K.next_label_>>),
                           node.kids[4]),
                node.kids[3]),
            loop_label, K.next_label_))

\* loop_label = genLabel(); markLabel(loop_label); condition.
forAfterInit(K, node) ==
    IF K.err # "" THEN K
    ELSE forAfterCondition(visitNode(markLabel(genLabel(K), K.next_label_), node.kids[2]),
                           node, K.next_label_)

visitForLoop(K, node) ==
    forAfterInit(visitNode(pushScope(K, FunctionScope("for_loop", <<>>)), node.kids[1]),
                 node)

\* lookupFunction after the arguments; emit(Call, {func_index, argc}).
callEmit(K, node) ==
    IF K.err # "" THEN K
    ELSE IF lookupFunction(K, node.text) = UINT32_MAX THEN throw(K, "Undefined function")
    ELSE allocateRegister(emit(K, "Call",
                               <<lookupFunction(K, node.text), Len(node.kids)>>))

visitFunctionCall(K, node) == callEmit(visitStatements(K, node.kids, 1), node)

returnEmit(K) == IF K.err # "" THEN K ELSE emit(K, "Return", <<lastRegister(K)>>)

visitReturnStatement(K, node) ==
    IF Len(node.kids) = 1
    THEN returnEmit(visitNode(K, node.kids[1]))
    ELSE emit(emit(K, "LoadConst", <<0>>), "Return", <<>>)

visitArrayLiteral(K, node) ==
    allocateRegister(emit(visitStatements(K, node.kids, 1), "NewArray",
                          <<Len(node.kids)>>))

indexEmit(K, array_reg) ==
    IF K.err # "" THEN K ELSE emit(K, "IndexLoad", <<array_reg, lastRegister(K)>>)

indexAfterArray(K, node) ==
    IF K.err # "" THEN K ELSE indexEmit(visitNode(K, node.kids[2]), lastRegister(K))

visitIndexAccess(K, node) == indexAfterArray(visitNode(K, node.kids[1]), node)

visitNode(K, node) ==
    IF K.err # "" THEN K
    ELSE CASE node.type = "Program" -> visitProgram(K, node)
           [] node.type = "FunctionDef" -> visitFunctionDef(K, node)
           [] node.type = "Block" -> visitBlock(K, node)
           [] node.type = "BinaryOp" -> visitBinaryOp(K, node)
           [] node.type = "UnaryOp" -> visitUnaryOp(K, node)
           [] node.type = "Literal" -> visitLiteral(K, node)
           [] node.type = "Identifier" -> visitIdentifier(K, node)
           [] node.type = "Assignment" -> visitAssignment(K, node)
           [] node.type = "IfStatement" -> visitIfStatement(K, node)
           [] node.type = "WhileLoop" -> visitWhileLoop(K, node)
           [] node.type = "ForLoop" -> visitForLoop(K, node)
           [] node.type = "FunctionCall" -> visitFunctionCall(K, node)
           [] node.type = "ReturnStatement" -> visitReturnStatement(K, node)
           [] node.type = "ArrayLiteral" -> visitArrayLiteral(K, node)
           [] node.type = "IndexAccess" -> visitIndexAccess(K, node)
           [] node.type = "nullptr" -> throw(K, "SIGSEGV")
           [] OTHER -> throw(K, "Unknown AST node type")

\* compile(root): a fresh module, the visit, finalize; the Compiler object
\* after the call, its err the message of the exception that compile wraps
\* in "Compilation error: " and re-raises.
compile(K, root) ==
    finalize(visitNode([K EXCEPT !.module = BytecodeModule, !.err = ""], root))

(***************************************************************************)
(* The compiler's inputs: programs of one function f(c), alone, after a    *)
(* function g() or after a top-level expression statement.  The body of f  *)
(* is up to MaxBodyLen statements, each a simple statement, an expression  *)
(* or an if, while or for over blocks of at most one statement.            *)
(***************************************************************************)
MaxBodyLen == 2

Literal(value) == Node("Literal", "", "", value, <<>>, <<>>)
NilLiteral == Node("Literal", "nil", "", 0, <<>>, <<>>)
Identifier(name) == Node("Identifier", "", name, 0, <<>>, <<>>)
BinaryOp(left, op, right) == Node("BinaryOp", op, "", 0, <<>>, <<left, right>>)
UnaryOp(op, operand) == Node("UnaryOp", op, "", 0, <<>>, <<operand>>)
Assignment(name, value) == Node("Assignment", "", name, 0, <<>>, <<value>>)
FunctionCall(name, arguments) == Node("FunctionCall", "", name, 0, <<>>, arguments)
ArrayLiteral(elements) == Node("ArrayLiteral", "", "", 0, <<>>, elements)
IndexAccess(array, index) == Node("IndexAccess", "", "", 0, <<>>, <<array, index>>)
ReturnStatement(value) == Node("ReturnStatement", "", "", 0, <<>>, value)
Block(statements) == Node("Block", "", "", 0, <<>>, statements)
IfStatement(branches) == Node("IfStatement", "", "", 0, <<>>, branches)
WhileLoop(condition, body) == Node("WhileLoop", "", "", 0, <<>>, <<condition, body>>)
ForLoop(init, condition, update, body) ==
    Node("ForLoop", "", "", 0, <<>>, <<init, condition, update, body>>)
FunctionDef(name, parameters, body) == Node("FunctionDef", "", name, 0, parameters, <<body>>)
Program(statements) == Node("Program", "", "", 0, <<>>, statements)

SimpleStatements ==
    { ReturnStatement(<<>>), ReturnStatement(<<Literal(7)>>),
      Assignment("x", Identifier("c")), FunctionCall("g", <<>>) }

ExpressionStatements ==
    { BinaryOp(Identifier("c"), "<", Literal(7)), UnaryOp("-", Identifier("c")),
      BinaryOp(Identifier("c"), "^", Literal(7)), Identifier("u"),
      FunctionCall("f", <<Identifier("c")>>),
      IndexAccess(ArrayLiteral(<<Literal(7)>>), Literal(0)),
      FunctionDef("h", <<>>, Block(<<>>)) }

\* The blocks of if, while and for: empty, or one statement that does or
\* does not end the block in Return.
Blocks ==
    { Block(<<>>), Block(<<ReturnStatement(<<>>)>>),
      Block(<<Assignment("x", Identifier("c"))>>) }

CompoundStatements ==
    { IfStatement(<<Identifier("c"), b>>) : b \in Blocks }
    \cup { IfStatement(<<Identifier("c"), b1, b2>>) : b1 \in Blocks, b2 \in Blocks }
    \cup { WhileLoop(Identifier("c"), b) : b \in Blocks }
    \cup { ForLoop(Assignment("i", Literal(0)), Identifier("i"),
                   Assignment("i", Literal(7)), b) : b \in Blocks }
    \cup { ForLoop(Assignment("i", Identifier("c")),
                   BinaryOp(Identifier("i"), "<", Identifier("c")),
                   Assignment("i", Identifier("c")), Block(<<>>)) }

\* What visitForLoop gets for a clause that for(;;) leaves out.  The
\* reference it visits comes from a null pointer, which is undefined
\* behaviour: reading the node's type kills the process, or yields a value
\* that is no node type.
MissingClauses == { NullPtr, Node("indeterminate", "", "", 0, <<>>, <<>>) }

\* for (;;) { }
EmptyForLoops == { ForLoop(m, m, m, Block(<<>>)) : m \in MissingClauses }

Statements ==
    SimpleStatements \cup ExpressionStatements \cup CompoundStatements \cup EmptyForLoops

\* What precedes f in the program: nothing, a function g(), or a top-level
\* expression statement, a number or nil.
ProgramPrefixes ==
    { <<>>, <<FunctionDef("g", <<>>, Block(<<>>))>>, <<Literal(7)>>, <<NilLiteral>> }

\* The constructor's initialiser list names current_function_, next_register_
\* and next_label_ but not current_register_, so the counter starts with an
\* indeterminate value: zero, one short of the limit, at the limit, or
\* beyond it.
IndeterminateRegisters == {0, MAX_REGISTERS - 1, MAX_REGISTERS, MAX_REGISTERS + 1}

CompInit ==
    /\ \E n \in 0..MaxBodyLen : \E ss \in [1..n -> Statements] :
          \E prefix \in ProgramPrefixes :
              cast = Program(prefix \o <<FunctionDef("f", <<"c">>, Block(ss))>>)
    /\ comp \in { [NewCompiler EXCEPT !.current_register_ = r] :
                      r \in IndeterminateRegisters }
    /\ cstage = "ready"

\* The compiler's variables when no Compiler is in use.
CompIdle ==
    /\ cast = NullPtr
    /\ comp = NewCompiler
    /\ cstage = "done"

\* Compiler compiler; compiler.compile(*ast);
Compile ==
    /\ cstage = "ready"
    /\ comp' = compile(comp, cast)
    /\ cstage' = "done"
    /\ UNCHANGED cast

\* The programs given to a Compiler that has compiled before.
NextPrograms ==
    { Program(<<FunctionDef("f", <<"c">>, Block(<<>>))>>),
      Program(<<FunctionDef("f", <<"c">>,
                            Block(<<ForLoop(Assignment("i", Literal(0)), Identifier("i"),
                                            Assignment("i", Literal(7)), Block(<<>>))>>))>>) }

\* compiler.compile(*next) on the same Compiler, once the first compile()
\* has returned or its exception has been caught.
Recompile ==
    /\ cstage = "done"
    /\ cast # NullPtr
    /\ \E next \in NextPrograms :
          /\ cast' = next
          /\ comp' = compile(comp, next)
    /\ cstage' = "again"

(***************************************************************************)
(* The register VM (VM::VM .. VM::set_state).                              *)
(*                                                                         *)
(* A register, a uint64_t, is a sequence of BYTES bytes, least significant *)
(* first; that is also the order in which memcpy lays it out in the heap   *)
(* and the stack on a little-endian build.  The arithmetic below is that   *)
(* of uint64_t: every result is taken modulo 2^64.                         *)
(***************************************************************************)
BYTES == 8
BYTE == 256
NUM_REGISTERS == 16

RECURSIVE WordFrom(_, _)
WordFrom(n, k) ==
    IF k = 0 THEN <<>> ELSE <<n % BYTE>> \o WordFrom(n \div BYTE, k - 1)

\* The uint64_t of a natural number.
Word(n) == WordFrom(n, BYTES)

\* The natural number of a uint64_t known to be below 2^24.
ToNat(w) == w[1] + BYTE * w[2] + BYTE * BYTE * w[3]

IsSmall(w) == \A i \in 4..BYTES : w[i] = 0

\* static_cast<uint32_t>(w)
Low32(w) == <<w[1], w[2], w[3], w[4]>> \o WordFrom(0, BYTES - 4)

\* a < b as uint64_t
RECURSIVE ULessFrom(_, _, _)
ULessFrom(a, b, i) ==
    IF i = 0 THEN FALSE
    ELSE IF a[i] # b[i] THEN a[i] < b[i]
    ELSE ULessFrom(a, b, i - 1)

ULess(a, b) == ULessFrom(a, b, BYTES)

IsNegative(w) == w[BYTES] >= BYTE \div 2

\* static_cast<int64_t>(a) < static_cast<int64_t>(b)
SLess(a, b) ==
    IF IsNegative(a) # IsNegative(b) THEN IsNegative(a) ELSE ULess(a, b)

\* a + b + carry from byte i on
RECURSIVE AddFrom(_, _, _, _)
AddFrom(a, b, i, carry) ==
    IF i > BYTES THEN <<>>
    ELSE <<(a[i] + b[i] + carry) % BYTE>>
             \o AddFrom(a, b, i + 1, (a[i] + b[i] + carry) \div BYTE)

\* a + b
Add(a, b) == AddFrom(a, b, 1, 0)

RECURSIVE ComplementFrom(_, _)
ComplementFrom(w, i) ==
    IF i > BYTES THEN <<>> ELSE <<BYTE - 1 - w[i]>> \o ComplementFrom(w, i + 1)

\* ~w
Complement(w) == ComplementFrom(w, 1)

\* a - b
Sub(a, b) == AddFrom(a, Complement(b), 1, 1)

RECURSIVE ColumnSum(_, _, _, _)
ColumnSum(a, b, k, i) ==
    IF i > k THEN 0 ELSE a[i] * b[k + 1 - i] + ColumnSum(a, b, k, i + 1)

RECURSIVE MulColumn(_, _, _, _)
MulFrom(a, b, k, carry) ==
    IF k > BYTES THEN <<>> ELSE MulColumn(a, b, k, ColumnSum(a, b, k, 1) + carry)

MulColumn(a, b, k, total) ==
    <<total % BYTE>> \o MulFrom(a, b, k + 1, total \div BYTE)

\* a * b
Mul(a, b) == MulFrom(a, b, 1, 0)

RECURSIVE Pow2(_)
Pow2(n) == IF n = 0 THEN 1 ELSE 2 * Pow2(n - 1)

\* Bit n of w, bit 0 the least significant.
Bit(w, n) == (w[(n \div 8) + 1] \div Pow2(n % 8)) % 2

\* w with bit n, clear before, set.
SetBit(w, n) == [w EXCEPT ![(n \div 8) + 1] = @ + Pow2(n % 8)]

\* Long division, one bit of the dividend per step from bit downwards:
\* q the quotient so far, r the remainder so far.
RECURSIVE DivBit(_, _, _, _, _, _)
DivLoop(a, b, bit, q, r) ==
    IF bit < 0 THEN [q |-> q, r |-> r]
    ELSE DivBit(a, b, bit, q, IsNegative(r), AddFrom(r, r, 1, Bit(a, bit)))

DivBit(a, b, bit, q, carried, r2) ==
    IF carried \/ ~ULess(r2, b)
    THEN DivLoop(a, b, bit - 1, SetBit(q, bit), Sub(r2, b))
    ELSE DivLoop(a, b, bit - 1, q, r2)

\* a / b and a % b, b # 0
Div(a, b) == DivLoop(a, b, 8 * BYTES - 1, Word(0), Word(0)).q
Mod(a, b) == DivLoop(a, b, 8 * BYTES - 1, Word(0), Word(0)).r

\* One bit of &, | and ^.
BitOp(op, x, y) ==
    CASE op = "&" -> x * y
      [] op = "|" -> x + y - x * y
      [] op = "^" -> (x + y) % 2

RECURSIVE ByteOp(_, _, _, _)
ByteOp(op, x, y, n) ==
    IF n = 0 THEN 0
    ELSE BitOp(op, x % 2, y % 2) + 2 * ByteOp(op, x \div 2, y \div 2, n - 1)

RECURSIVE BitwiseFrom(_, _, _, _)
BitwiseFrom(op, a, b, i) ==
    IF i > BYTES THEN <<>>
    ELSE <<ByteOp(op, a[i], b[i], 8)>> \o BitwiseFrom(op, a, b, i + 1)

\* a & b, a | b, a ^ b
Bitwise(op, a, b) == BitwiseFrom(op, a, b, 1)

RECURSIVE HalveFrom(_, _)
HalveFrom(w, i) ==
    IF i > BYTES THEN <<>>
    ELSE <<w[i] \div 2 + (IF i < BYTES THEN (w[i + 1] % 2) * (BYTE \div 2) ELSE 0)>>
             \o HalveFrom(w, i + 1)

\* w >> 1
Halve(w) == HalveFrom(w, 1)

\* value << n, value >> n for n below the width
RECURSIVE ShiftLeft(_, _)
ShiftLeft(value, n) == IF n = 0 THEN value ELSE ShiftLeft(Add(value, value), n - 1)

RECURSIVE ShiftRight(_, _)
ShiftRight(value, n) == IF n = 0 THEN value ELSE ShiftRight(Halve(value), n - 1)

\* A shift by the width or more is undefined: the build may shift by the
\* count modulo the width or produce zero.
IsWideShift(shift) == ~IsSmall(shift) \/ ToNat(shift) >= 8 * BYTES

Shl(value, shift) ==
    IF IsWideShift(shift)
    THEN {ShiftLeft(value, shift[1] % (8 * BYTES)), Word(0)}
    ELSE {ShiftLeft(value, ToNat(shift))}

Shr(value, shift) ==
    IF IsWideShift(shift)
    THEN {ShiftRight(value, shift[1] % (8 * BYTES)), Word(0)}
    ELSE {ShiftRight(value, ToNat(shift))}

\* -1 in the unsigned type of pc_: what pc_ holds between `immediate - 1`
\* for an immediate of zero and the increment that follows.
PC_MAX == -1

\* Instruction{opcode, dest, operand1, operand2, immediate}
VMInstruction(opcode, dest, operand1, operand2, immediate) ==
    [opcode |-> opcode, dest |-> dest, operand1 |-> operand1,
     operand2 |-> operand2, immediate |-> immediate]

\* VM::VM(heap_size, stack_size).  The initialiser list and the body leave
\* heap_alloc_ptr_ unset: alloc_ptr is the value it happens to hold.
VM(heap_size, stack_size, alloc_ptr) ==
    [heap_size_ |-> heap_size, stack_size_ |-> stack_size,
     pc_ |-> 0, sp_ |-> 0, fp_ |-> 0, halt_flag_ |-> FALSE,
     heap_ |-> [i \in 1..heap_size |-> 0],
     stack_ |-> [i \in 1..stack_size |-> 0],
     registers_ |-> [r \in 0..(NUM_REGISTERS - 1) |-> Word(0)],
     call_stack_ |-> <<>>, program_ |-> <<>>,
     heap_alloc_ptr_ |-> alloc_ptr, err |-> ""]

\* What a read outside an array may find.
IndeterminateWords == {Word(0), Word(1), Sub(Word(0), Word(1))}

Min(a, b) == IF a < b THEN a ELSE b

\* The largest size_t: sizes are 64-bit words, and sums of sizes wrap.
SIZE_MAX == Sub(Word(0), Word(1))

\* std::min(size, sizeof(uint64_t)): the bytes a memcpy of the VM copies.
copied(size) == IF IsSmall(size) THEN Min(ToNat(size), BYTES) ELSE BYTES

\* addr + size > heap_size_, addr a uint32_t held as a word, size a size_t
memoryOutOfBounds(V, addr, size) ==
    ULess(Word(V.heap_size_), Add(addr, size))

\* TRUE iff the size bytes at heap_ + addr do not all lie in the heap.
heapOverrun(V, addr, size) ==
    /\ size # Word(0)
    /\ ~IsSmall(addr) \/ ~IsSmall(size) \/ ToNat(addr) + ToNat(size) > V.heap_size_

\* memset(heap_ + addr, 0, size), as far as it falls into the heap.
zeroed(V, addr, size) ==
    [V EXCEPT !.heap_ =
        [i \in 1..V.heap_size_ |->
            IF i > ToNat(addr) /\ (~IsSmall(size) \/ i <= ToNat(addr) + ToNat(size))
            THEN 0 ELSE V.heap_[i]]]

\* VM::allocate: the VM after the call, err set where it throws.
allocate(V, size) ==
    IF ULess(Word(V.heap_size_), Add(Word(V.heap_alloc_ptr_), size))
    THEN throw(V, "Heap allocation failed: out of memory")
    ELSE zeroed([V EXCEPT !.heap_alloc_ptr_ = ToNat(Add(Word(V.heap_alloc_ptr_), size))],
                Low32(Word(V.heap_alloc_ptr_)), size)

\* VM::allocate, the address it returns.
allocated(V) == Low32(Word(V.heap_alloc_ptr_))

\* VM::deallocate
deallocate(V, addr, size) ==
    IF ~ULess(addr, Word(V.heap_size_)) \/ memoryOutOfBounds(V, addr, size)
    THEN throw(V, "Invalid deallocation: address out of bounds")
    ELSE zeroed(V, addr, size)

\* VM::read_memory past its bounds check: the value memcpy builds.
memoryValue(V, addr, size) ==
    SubSeq(V.heap_, ToNat(addr) + 1, ToNat(addr) + copied(size))
        \o WordFrom(0, BYTES - copied(size))

\* VM::read_memory, the values it may return: the bytes at addr, or, when
\* they lie past the end of the heap, whatever is there.
read_memory(V, addr, size) ==
    IF heapOverrun(V, addr, Word(copied(size))) THEN IndeterminateWords
    ELSE {memoryValue(V, addr, size)}

\* VM::write_memory; bytes copied past the end of the heap land outside it.
write_memory(V, addr, value, size) ==
    IF memoryOutOfBounds(V, addr, size)
    THEN throw(V, "Memory write out of bounds")
    ELSE [V EXCEPT !.heap_ =
            [i \in 1..V.heap_size_ |->
                IF i > ToNat(addr) /\ i <= ToNat(addr) + copied(size)
                THEN value[i - ToNat(addr)] ELSE V.heap_[i]]]

\* TRUE iff the n bytes at stack_ + at do not all lie in the stack.
stackOverrun(V, at, n) == n > 0 /\ at + n > V.stack_size_

\* VM::push; bytes copied past the end of the stack land outside it.
VM_push(V, value, size) ==
    IF ULess(Word(V.stack_size_), Add(Word(V.sp_), size))
    THEN throw(V, "Stack overflow")
    ELSE [V EXCEPT !.stack_ =
                [i \in 1..V.stack_size_ |->
                    IF i > V.sp_ /\ i <= V.sp_ + copied(size)
                    THEN value[i - V.sp_] ELSE V.stack_[i]],
             !.sp_ = ToNat(Add(Word(V.sp_), size))]

\* VM::pop, the VM after the call
VM_pop(V, size) ==
    IF ULess(Word(V.sp_), size)
    THEN throw(V, "Stack underflow")
    ELSE [V EXCEPT !.sp_ = V.sp_ - ToNat(size)]

\* VM::pop returning the bytes at the bottom of the stack.
poppedFromBottom(V, size) ==
    {SubSeq(V.stack_, 1, copied(size)) \o WordFrom(0, BYTES - copied(size))}

\* VM::pop, the values it may return: the bytes at the new sp_, or, when
\* they lie past the end of the buffer, whatever is there.
popped(V, size) ==
    IF stackOverrun(V, V.sp_ - ToNat(size), copied(size))
    THEN IndeterminateWords
    ELSE {SubSeq(V.stack_, V.sp_ - ToNat(size) + 1, V.sp_ - ToNat(size) + copied(size))
              \o WordFrom(0, BYTES - copied(size))}

\* VM::read_register(reg): the VM it leaves, err set where it throws; the
\* value it returns otherwise is registers_[reg].
read_register(V, reg) ==
    IF reg >= NUM_REGISTERS THEN throw(V, "Invalid register index") ELSE V

\* VM::write_register(reg, value)
write_register(V, reg, value) ==
    IF reg >= NUM_REGISTERS THEN throw(V, "Invalid register index")
    ELSE [V EXCEPT !.registers_[reg] = value]

\* VM::peek_stack, the VM after the call: as it was, or with err set.
peek_stack(V, offset, size) ==
    IF ULess(Word(V.sp_), Add(offset, size))
    THEN throw(V, "Stack read out of bounds")
    ELSE V

\* VM::peek_stack, the values it may return: the bytes at
\* sp_ - offset - size, or, when they lie past the end of the buffer,
\* whatever is there.
peeked(V, offset, size) ==
    IF stackOverrun(V, V.sp_ - ToNat(offset) - ToNat(size), copied(size))
    THEN IndeterminateWords
    ELSE {SubSeq(V.stack_, V.sp_ - ToNat(offset) - ToNat(size) + 1,
                 V.sp_ - ToNat(offset) - ToNat(size) + copied(size))
              \o WordFrom(0, BYTES - copied(size))}

\* registers_[reg] read; reg is not checked against NUM_REGISTERS.
registerAt(V, reg) ==
    IF reg < NUM_REGISTERS THEN {V.registers_[reg]} ELSE IndeterminateWords

\* registers_[reg] = value; a reg of NUM_REGISTERS or more writes past the
\* array: into memory the VM never reads, or over a member that follows.
storeRegister(V, reg, value) ==
    IF reg < NUM_REGISTERS
    THEN {[V EXCEPT !.registers_[reg] = value]}
    ELSE {V, [V EXCEPT !.halt_flag_ = (value # Word(0))]}
           \cup (IF IsSmall(value) THEN {[V EXCEPT !.sp_ = ToNat(value)]} ELSE {})

execute_add(V, instr) ==
    UNION { storeRegister(V, instr.dest, Add(a, b)) :
              a \in registerAt(V, instr.operand1),
              b \in registerAt(V, instr.operand2) }

execute_sub(V, instr) ==
    UNION { storeRegister(V, instr.dest, Sub(a, b)) :
              a \in registerAt(V, instr.operand1),
              b \in registerAt(V, instr.operand2) }

execute_mul(V, instr) ==
    UNION { storeRegister(V, instr.dest, Mul(a, b)) :
              a \in registerAt(V, instr.operand1),
              b \in registerAt(V, instr.operand2) }

execute_div(V, instr) ==
    UNION { IF b = Word(0) THEN {throw(V, "Division by zero")}
            ELSE storeRegister(V, instr.dest, Div(a, b)) :
              a \in registerAt(V, instr.operand1),
              b \in registerAt(V, instr.operand2) }

execute_mod(V, instr) ==
    UNION { IF b = Word(0) THEN {throw(V, "Modulo by zero")}
            ELSE storeRegister(V, instr.dest, Mod(a, b)) :
              a \in registerAt(V, instr.operand1),
              b \in registerAt(V, instr.operand2) }

execute_and(V, instr) ==
    UNION { storeRegister(V, instr.dest, Bitwise("&", a, b)) :
              a \in registerAt(V, instr.operand1),
              b \in registerAt(V, instr.operand2) }

execute_or(V, instr) ==
    UNION { storeRegister(V, instr.dest, Bitwise("|", a, b)) :
              a \in registerAt(V, instr.operand1),
              b \in registerAt(V, instr.operand2) }

execute_xor(V, instr) ==
    UNION { storeRegister(V, instr.dest, Bitwise("^", a, b)) :
              a \in registerAt(V, instr.operand1),
              b \in registerAt(V, instr.operand2) }

execute_shl(V, instr) ==
    UNION { UNION { storeRegister(V, instr.dest, result) : result \in Shl(value, shift) } :
              value \in registerAt(V, instr.operand1),
              shift \in registerAt(V, instr.operand2) }

execute_shr(V, instr) ==
    UNION { UNION { storeRegister(V, instr.dest, result) : result \in Shr(value, shift) } :
              value \in registerAt(V, instr.operand1),
              shift \in registerAt(V, instr.operand2) }

execute_load(V, instr) ==
    UNION { IF memoryOutOfBounds(V, Low32(a), Word(BYTES))
            THEN {throw(V, "Memory read out of bounds")}
            ELSE storeRegister(V, instr.dest, memoryValue(V, Low32(a), Word(BYTES))) :
              a \in registerAt(V, instr.operand1) }

execute_store(V, instr) ==
    { write_memory(V, Low32(a), value, Word(BYTES)) :
        a \in registerAt(V, instr.operand1),
        value \in registerAt(V, instr.operand2) }

execute_loadimm(V, instr) == storeRegister(V, instr.dest, Word(instr.immediate))

execute_push(V, instr) ==
    { VM_push(V, value, Word(BYTES)) : value \in registerAt(V, instr.operand1) }

execute_pop(V, instr) ==
    IF VM_pop(V, Word(BYTES)).err # "" THEN {VM_pop(V, Word(BYTES))}
    ELSE UNION { storeRegister(VM_pop(V, Word(BYTES)), instr.dest, value) :
                   value \in popped(V, Word(BYTES)) }

\* pc_ = instr.immediate, without the adjustment for the increment.
jumpToImmediate(V, instr) == [V EXCEPT !.pc_ = instr.immediate]

\* pc_ = instr.immediate - 1
jump(V, instr) ==
    [V EXCEPT !.pc_ = IF instr.immediate = 0 THEN PC_MAX ELSE instr.immediate - 1]

execute_jmp(V, instr) == {jump(V, instr)}

execute_jz(V, instr) ==
    { IF a = Word(0) THEN jump(V, instr) ELSE V :
        a \in registerAt(V, instr.operand1) }

execute_jnz(V, instr) ==
    { IF a # Word(0) THEN jump(V, instr) ELSE V :
        a \in registerAt(V, instr.operand1) }

execute_jlt(V, instr) ==
    { IF SLess(a, b) THEN jump(V, instr) ELSE V :
        a \in registerAt(V, instr.operand1),
        b \in registerAt(V, instr.operand2) }

execute_jle(V, instr) ==
    { IF ~SLess(b, a) THEN jump(V, instr) ELSE V :
        a \in registerAt(V, instr.operand1),
        b \in registerAt(V, instr.operand2) }

execute_jgt(V, instr) ==
    { IF SLess(b, a) THEN jump(V, instr) ELSE V :
        a \in registerAt(V, instr.operand1),
        b \in registerAt(V, instr.operand2) }

execute_jge(V, instr) ==
    { IF ~SLess(a, b) THEN jump(V, instr) ELSE V :
        a \in registerAt(V, instr.operand1),
        b \in registerAt(V, instr.operand2) }

execute_call(V, instr) ==
    {jump([V EXCEPT !.call_stack_ = Append(V.call_stack_, V.pc_)], instr)}

\* As execute_ret, but leaving the entry on the call stack.
execute_retKeepEntry(V, instr) ==
    IF V.call_stack_ = <<>>
    THEN {throw(V, "Return from empty call stack")}
    ELSE {[V EXCEPT !.pc_ = V.call_stack_[Len(V.call_stack_)]]}

execute_ret(V, instr) ==
    IF V.call_stack_ = <<>>
    THEN {throw(V, "Return from empty call stack")}
    ELSE {[V EXCEPT !.pc_ = V.call_stack_[Len(V.call_stack_)],
                     !.call_stack_ = SubSeq(V.call_stack_, 1, Len(V.call_stack_) - 1)]}

\* execute_cmp comparing the registers as they are, unsigned.
execute_cmpUnsigned(V, instr) ==
    { [V EXCEPT !.registers_[15] =
          IF a = b THEN Word(0) ELSE IF ULess(a, b) THEN Word(1) ELSE Word(2)] :
        a \in registerAt(V, instr.operand1),
        b \in registerAt(V, instr.operand2) }

execute_cmp(V, instr) ==
    { [V EXCEPT !.registers_[15] =
          IF a = b THEN Word(0) ELSE IF SLess(a, b) THEN Word(1) ELSE Word(2)] :
        a \in registerAt(V, instr.operand1),
        b \in registerAt(V, instr.operand2) }

\* The switch of VM::execute_instruction.
dispatch(V, instr) ==
    CASE instr.opcode = "ADD" -> execute_add(V, instr)
      [] instr.opcode = "SUB" -> execute_sub(V, instr)
      [] instr.opcode = "MUL" -> execute_mul(V, instr)
      [] instr.opcode = "DIV" -> execute_div(V, instr)
      [] instr.opcode = "MOD" -> execute_mod(V, instr)
      [] instr.opcode = "AND" -> execute_and(V, instr)
      [] instr.opcode = "OR" -> execute_or(V, instr)
      [] instr.opcode = "XOR" -> execute_xor(V, instr)
      [] instr.opcode = "SHL" -> execute_shl(V, instr)
      [] instr.opcode = "SHR" -> execute_shr(V, instr)
      [] instr.opcode = "LOAD" -> execute_load(V, instr)
      [] instr.opcode = "STORE" -> execute_store(V, instr)
      [] instr.opcode = "LOADIMM" -> execute_loadimm(V, instr)
      [] instr.opcode = "PUSH" -> execute_push(V, instr)
      [] instr.opcode = "POP" -> execute_pop(V, instr)
      [] instr.opcode = "JMP" -> execute_jmp(V, instr)
      [] instr.opcode = "JZ" -> execute_jz(V, instr)
      [] instr.opcode = "JNZ" -> execute_jnz(V, instr)
      [] instr.opcode = "JLT" -> execute_jlt(V, instr)
      [] instr.opcode = "JLE" -> execute_jle(V, instr)
      [] instr.opcode = "JGT" -> execute_jgt(V, instr)
      [] instr.opcode = "JGE" -> execute_jge(V, instr)
      [] instr.opcode = "CALL" -> execute_call(V, instr)
      [] instr.opcode = "RET" -> execute_ret(V, instr)
      [] instr.opcode = "CMP" -> execute_cmp(V, instr)
      [] instr.opcode = "NOP" -> {V}
      [] instr.opcode = "HALT" -> {[V EXCEPT !.halt_flag_ = TRUE]}
      [] OTHER -> {throw(V, "Unknown opcode")}

\* As increment, but leaving the program counter where it is.
incrementStay(pc) == pc

\* pc_++
increment(pc) == IF pc = PC_MAX THEN 0 ELSE pc + 1

\* As execute_instruction, but counting the instruction before running it.
execute_instructionCountFirst(V, instr) ==
    dispatch([V EXCEPT !.pc_ = increment(V.pc_)], instr)

\* VM::execute_instruction: the VMs it may leave, err set where it throws.
execute_instruction(V, instr) ==
    { IF after.err # "" THEN after ELSE [after EXCEPT !.pc_ = increment(after.pc_)] :
        after \in dispatch(V, instr) }

\* pc_ < program_.size()
inProgram(V) == V.pc_ # PC_MAX /\ V.pc_ < Len(V.program_)

(***************************************************************************)
(* The VM's inputs: a VM of HeapSize and StackSize bytes, run once on a    *)
(* program of up to MaxProgLen instructions, the run cut off after         *)
(* MaxSteps instructions.  R1 is loaded with the first address at which an *)
(* eight-byte access falls off the heap.                                   *)
(***************************************************************************)
HeapSize == 16
StackSize == 16
MaxProgLen == 3
MaxSteps == 6

Op0(opcode) == VMInstruction(opcode, 0, 0, 0, 0)
Op3(opcode, dest, operand1, operand2) == VMInstruction(opcode, dest, operand1, operand2, 0)
Jump(opcode, operand1, operand2, target) == VMInstruction(opcode, 0, operand1, operand2, target)

LoadR1 == VMInstruction("LOADIMM", 1, 0, 0, HeapSize - BYTES + 1)

\* The instructions that raise, call, return or stop.
ControlInstructions ==
    { LoadR1, Op3("DIV", 0, 1, 2),
      Op3("PUSH", 0, 1, 0), Op3("POP", 2, 0, 0),
      Op3("LOAD", 0, 1, 0), Op3("STORE", 0, 2, 1),
      Jump("CALL", 0, 0, 2), Jump("CALL", 0, 0, 1), Op0("RET"),
      Op0("HALT") }

\* The other instructions, an opcode outside the enumeration, and two
\* instructions whose register fields lie outside the register file.
DataInstructions ==
    { Op3("ADD", 2, 1, 1), Op3("SUB", 2, 0, 1), Op3("MUL", 1, 1, 1),
      Op3("AND", 2, 1, 1), Op3("OR", 2, 1, 0), Op3("XOR", 2, 1, 1),
      Op3("SHL", 2, 1, 1), Op3("SHR", 2, 1, 1), Op3("CMP", 0, 0, 1),
      Jump("JMP", 0, 0, 0), Jump("JZ", 2, 0, 3), Jump("JNZ", 1, 0, 3),
      Jump("JLT", 0, 1, 3), Jump("JLE", 0, 1, 3), Jump("JGT", 0, 1, 3),
      Jump("JGE", 0, 1, 3), Op0("NOP"),
      Op3("MOD", 0, 1, 2), Op3("MOD", 0, 1, 1), Op0("BAD"),
      Op3("ADD", NUM_REGISTERS, 1, 1), Op3("DIV", 0, 1, NUM_REGISTERS) }

\* How a program starts: with nothing, or with R1 loaded and one of the data
\* instructions.
ProgramLeads == {<<>>} \cup { <<LoadR1, instr>> : instr \in DataInstructions }

\* What heap_alloc_ptr_ may hold after construction.
IndeterminateAllocPtrs == {0, HeapSize + 1}

\* No call made yet.
NoCall ==
    [op |-> "none", addr |-> Word(0), size |-> Word(0), value |-> Word(0),
     ret |-> Word(0), overrun |-> FALSE, n |-> 0]

VMInit ==
    /\ vm \in { VM(HeapSize, StackSize, alloc_ptr) : alloc_ptr \in IndeterminateAllocPtrs }
    /\ vrun = "idle"
    /\ raised = ""
    /\ executed = 0
    /\ api = NoCall

\* The VM's variables when no VM is in use.
VMIdle ==
    /\ vm = VM(HeapSize, StackSize, 0)
    /\ vrun = "returned"
    /\ raised = ""
    /\ executed = 0
    /\ api = NoCall

\* VM::run(program), up to the loop.
RunOn(program) ==
    /\ vrun = "idle"
    /\ vm' = [vm EXCEPT !.program_ = program, !.pc_ = 0, !.halt_flag_ = FALSE]
    /\ vrun' = "running"
    /\ UNCHANGED <<raised, executed, api>>

Run ==
    /\ vrun = "idle"
    /\ \E lead \in ProgramLeads : \E n \in 0..(MaxProgLen - Len(lead)) :
          \E rest \in [1..n -> ControlInstructions] : RunOn(lead \o rest)

\* VM::run, one iteration of the loop: the instruction at pc_ runs, and what
\* it throws is logged and thrown on to the caller.
RunStep ==
    /\ vrun = "running"
    /\ ~vm.halt_flag_
    /\ inProgram(vm)
    /\ executed < MaxSteps
    /\ \E after \in execute_instruction(vm, vm.program_[vm.pc_ + 1]) :
          /\ vm' = [after EXCEPT !.err = ""]
          /\ raised' = after.err
          /\ vrun' = IF after.err = "" THEN "running" ELSE "raised"
    /\ executed' = executed + 1
    /\ UNCHANGED api

\* VM::run, the loop condition false: run returns.
RunReturn ==
    /\ vrun = "running"
    /\ vm.halt_flag_ \/ ~inProgram(vm)
    /\ vrun' = "returned"
    /\ UNCHANGED <<vm, raised, executed, api>>

(***************************************************************************)
(* The VM's interface besides run(): the host allocates, reads and writes  *)
(* heap memory and pushes and pops the stack, and catches what a call      *)
(* throws.  A call that reads or writes outside its buffer is undefined    *)
(* behaviour: the process goes on, with the bytes outside the buffer lost  *)
(* or indeterminate, or it is killed.                                      *)
(***************************************************************************)
MaxCalls == 2

AllocSizes == {Word(0), Word(1), Word(BYTES), SIZE_MAX}

\* <<addr, size>> of the memory calls: inside the heap, ending at its last
\* byte, one byte over, and with a size so large that addr + size wraps.
Regions ==
    { <<Word(0), Word(BYTES)>>, <<Word(1), Word(1)>>,
      <<Word(HeapSize - BYTES), Word(BYTES)>>,
      <<Word(HeapSize - BYTES + 1), Word(BYTES)>>,
      <<Word(1), SIZE_MAX>>,
      <<Word(HeapSize), Sub(Word(0), Word(HeapSize))>> }

Values == {Word(BYTE + 2), Sub(Word(0), Word(2))}

StackSizes == {Word(1), Word(BYTES), Word(StackSize), SIZE_MAX}

\* The call returns or throws, leaving the VM as in after; a call that
\* overran its buffer may have killed the process instead.
Called(op, addr, size, value, after, ret, overrun) ==
    /\ vrun = "idle"
    /\ api.n < MaxCalls
    /\ \E killed \in (IF overrun /\ after.err = "" THEN BOOLEAN ELSE {FALSE}) :
          /\ vrun' = IF killed THEN "killed" ELSE "idle"
          /\ raised' = IF killed THEN "SIGSEGV" ELSE after.err
    /\ vm' = [after EXCEPT !.err = ""]
    /\ api' = [op |-> op, addr |-> addr, size |-> size, value |-> value,
               ret |-> IF after.err = "" THEN ret ELSE Word(0),
               overrun |-> overrun /\ after.err = "", n |-> api.n + 1]
    /\ UNCHANGED executed

\* uint32_t addr = vm.allocate(size);
Allocate ==
    \E size \in AllocSizes :
        Called("allocate", Word(0), size, Word(0), allocate(vm, size), allocated(vm),
               heapOverrun(vm, allocated(vm), size))

\* vm.deallocate(addr, size);
Deallocate ==
    \E region \in Regions :
        Called("deallocate", region[1], region[2], Word(0),
               deallocate(vm, region[1], region[2]), Word(0),
               heapOverrun(vm, region[1], region[2]))

\* uint64_t value = vm.read_memory(addr, size);
ReadMemory ==
    \E region \in Regions :
        \E ret \in (IF memoryOutOfBounds(vm, region[1], region[2]) THEN {Word(0)}
                    ELSE read_memory(vm, region[1], region[2])) :
            Called("read_memory", region[1], region[2], Word(0),
                   IF memoryOutOfBounds(vm, region[1], region[2])
                   THEN throw(vm, "Memory read out of bounds") ELSE vm,
                   ret, heapOverrun(vm, region[1], Word(copied(region[2]))))

\* vm.write_memory(addr, value, size);
WriteMemory ==
    \E region \in Regions : \E value \in Values :
        Called("write_memory", region[1], region[2], value,
               write_memory(vm, region[1], value, region[2]), Word(0),
               heapOverrun(vm, region[1], Word(copied(region[2]))))

\* vm.push(value, size);
Push ==
    \E size \in StackSizes : \E value \in Values :
        Called("push", Word(0), size, value, VM_push(vm, value, size), Word(0),
               stackOverrun(vm, vm.sp_, copied(size)))

\* uint64_t value = vm.pop(size);
Pop ==
    \E size \in StackSizes :
        \E ret \in (IF VM_pop(vm, size).err # "" THEN {Word(0)} ELSE popped(vm, size)) :
            Called("pop", Word(0), size, Word(0), VM_pop(vm, size), ret,
                   VM_pop(vm, size).err = ""
                       /\ stackOverrun(vm, vm.sp_ - ToNat(size), copied(size)))

\* Programs of loads and stores: at address 0, and at an address whose
\* word ends one byte past the heap.
MemoryPrograms ==
    { <<Op3("LOAD", 0, 1, 0), Op3("STORE", 0, 2, 0)>>,
      <<LoadR1, Op3("STORE", 0, 2, 1), Op3("LOAD", 0, 1, 0)>>,
      <<LoadR1, Op3("STORE", 0, 1, 1)>> }

\* vm.run(program) after the calls made so far.
RunMemory == vrun = "idle" /\ \E program \in MemoryPrograms : RunOn(program)

(***************************************************************************)
(* Programs of one comparison or jump over three registers: R0 zero, R1    *)
(* one or nine, and R2 the negative of R1, which as an unsigned value is   *)
(* 2^64 - 1 or 2^64 - 9.  The targets run from 0 to one past the length of *)
(* the program.                                                            *)
(***************************************************************************)
LoadOne == VMInstruction("LOADIMM", 1, 0, 0, 1)

JumpOpcodes == {"JMP", "JZ", "JNZ", "JLT", "JLE", "JGT", "JGE", "CALL"}

BranchInstructions ==
    { Jump(opcode, a, b, t) :
        opcode \in JumpOpcodes, a \in 0..2, b \in 0..2, t \in 0..(MaxProgLen + 1) }
    \cup { Op3("CMP", 0, a, b) : a \in 0..2, b \in 0..2 }

RunBranch ==
    /\ vrun = "idle"
    /\ \E load \in {LoadR1, LoadOne} : \E instr \in BranchInstructions :
          RunOn(<<load, Op3("SUB", 2, 0, 1), instr>>)

(***************************************************************************)
(* Running twice.  The host runs a program on a fresh VM and, when run has *)
(* returned or raised, runs the same program again on the same VM.  The    *)
(* programs are of pushes, pops, calls and returns, none of which reads or *)
(* writes outside a buffer.                                                *)
(***************************************************************************)
MaxRerunLen == 2

RerunInstructions ==
    { LoadR1, Op3("PUSH", 0, 1, 0), Op3("POP", 2, 0, 0), Op3("ADD", 2, 1, 2),
      Jump("CALL", 0, 0, 2), Jump("CALL", 0, 0, 1), Op0("RET"), Op0("HALT") }

RunFirst ==
    /\ vrun = "idle"
    /\ \E n \in 1..MaxRerunLen : \E program \in [1..n -> RerunInstructions] :
          RunOn(program)

\* vm.run(program) a second time, with the program of the first run.
RunAgain ==
    /\ vrun \in {"returned", "raised"}
    /\ api.op = "none"
    /\ vm' = [vm EXCEPT !.pc_ = 0, !.halt_flag_ = FALSE]
    /\ vrun' = "running"
    /\ raised' = ""
    /\ executed' = 0
    /\ api' = [op |-> "run", before |-> vm, raised |-> raised, n |-> 1]

(***************************************************************************)
(* The stack as the host uses it: a VM whose stack holds MaxPushes values  *)
(* of eight bytes and one byte more, an optional push of one byte first,   *)
(* and then push(v, 8), pop(8) and peek_stack(0, 8) in any order, up to    *)
(* MaxStackCalls calls.  held is history: the values pushed by the         *)
(* push(v, 8) calls that returned and not yet popped, oldest first, and    *)
(* base is sp as the first of them found it.                               *)
(***************************************************************************)
MaxPushes == 3
MaxStackCalls == 6

NoStackCall ==
    [op |-> "none", held |-> <<>>, base |-> 0, ret |-> Word(0), n |-> 0]

StackInit ==
    /\ vm \in { VM(HeapSize, MaxPushes * BYTES + 1, alloc_ptr) :
                  alloc_ptr \in IndeterminateAllocPtrs }
    /\ vrun = "idle"
    /\ raised = ""
    /\ executed = 0
    /\ api = NoStackCall

\* The call returns or throws, leaving the VM as in after.
StackCalled(op, after, ret, held) ==
    /\ vm' = [after EXCEPT !.err = ""]
    /\ raised' = after.err
    /\ api' = [op |-> op,
               held |-> IF after.err = "" THEN held ELSE api.held,
               base |-> IF api.held = <<>> THEN vm.sp_ ELSE api.base,
               ret |-> IF after.err = "" THEN ret ELSE Word(0),
               n |-> api.n + 1]
    /\ UNCHANGED <<vrun, executed>>

\* vm.push(value, 1); as the first call
PushByte ==
    /\ api.n = 0
    /\ \E value \in Values :
          StackCalled("push1", VM_push(vm, value, Word(1)), Word(0), api.held)

\* vm.push(value, 8);
PushWord ==
    /\ api.n < MaxStackCalls
    /\ \E value \in Values :
          StackCalled("push", VM_push(vm, value, Word(BYTES)), Word(0),
                      Append(api.held, value))

\* uint64_t value = vm.pop(8);
PopWord ==
    /\ api.n < MaxStackCalls
    /\ \E ret \in (IF VM_pop(vm, Word(BYTES)).err # "" THEN {Word(0)}
                   ELSE popped(vm, Word(BYTES))) :
          StackCalled("pop", VM_pop(vm, Word(BYTES)), ret,
                      IF api.held = <<>> THEN <<>>
                      ELSE SubSeq(api.held, 1, Len(api.held) - 1))

\* uint64_t value = vm.peek_stack(0, 8);
PeekWord ==
    /\ api.n < MaxStackCalls
    /\ \E ret \in (IF peek_stack(vm, Word(0), Word(BYTES)).err # "" THEN {Word(0)}
                   ELSE peeked(vm, Word(0), Word(BYTES))) :
          StackCalled("peek_stack", peek_stack(vm, Word(0), Word(BYTES)), ret, api.held)

(***************************************************************************)
(* Snapshots.  VMState holds pc, sp, fp, halted and the register file,     *)
(* each of its member's type.                                              *)
(***************************************************************************)
VMState(pc, sp, fp, halted, registers) ==
    [pc |-> pc, sp |-> sp, fp |-> fp, halted |-> halted, registers |-> registers]

\* VMState VM::get_state() const; the memcpy copies sizeof(registers_)
\* bytes, the sixteen registers.
get_state(V) ==
    VMState(V.pc_, V.sp_, V.fp_, V.halt_flag_,
            [r \in 0..(NUM_REGISTERS - 1) |-> V.registers_[r]])

\* set_state leaving the halt flag as it is.
set_stateKeepHalt(V, state) ==
    [V EXCEPT !.pc_ = state.pc, !.sp_ = state.sp, !.fp_ = state.fp,
              !.registers_ = [r \in 0..(NUM_REGISTERS - 1) |-> state.registers[r]]]

\* void VM::set_state(const VMState& state)
set_state(V, state) ==
    [V EXCEPT !.pc_ = state.pc, !.sp_ = state.sp, !.fp_ = state.fp,
              !.halt_flag_ = state.halted,
              !.registers_ = [r \in 0..(NUM_REGISTERS - 1) |-> state.registers[r]]]

\* Programs that leave the VM halted with a value on the stack, stopped by
\* an exception, returned from a call, and untouched.
StatePrograms ==
    { <<LoadR1, Op3("PUSH", 0, 1, 0), Op0("HALT")>>,
      <<LoadR1, Op3("DIV", 0, 1, 2)>>,
      <<Jump("CALL", 0, 0, 2), Op0("HALT"), Op0("RET")>>,
      <<>> }

RunForState == vrun = "idle" /\ \E program \in StatePrograms : RunOn(program)

\* Snapshots a host may hand to set_state: VMState is a plain structure,
\* and its sp may be that of a VM with a larger stack.
Snapshots ==
    { VMState(pc, sp, sp, halted, registers) :
        pc \in {0, MaxProgLen}, sp \in {0, StackSize, StackSize + BYTES},
        halted \in BOOLEAN,
        registers \in { [r \in 0..(NUM_REGISTERS - 1) |-> Word(0)],
                        [r \in 0..(NUM_REGISTERS - 1) |-> Sub(Word(0), Word(r + 1))] } }

\* VMState state = vm.get_state(); after run() has returned or thrown
GetState ==
    /\ vrun \in {"returned", "raised"}
    /\ api.n < MaxCalls
    /\ api' = [op |-> "get_state", state |-> get_state(vm), before |-> vm,
               n |-> api.n + 1]
    /\ UNCHANGED <<vm, vrun, raised, executed>>

\* vm.set_state(state); with a snapshot of the host's making, the one
\* get_state returned last, or get_state()'s own result
SetState ==
    /\ vrun \in {"returned", "raised"}
    /\ api.n < MaxCalls
    /\ \E state \in Snapshots \cup {get_state(vm)}
                    \cup (IF api.op = "get_state" THEN {api.state} ELSE {}) :
          /\ vm' = set_state(vm, state)
          /\ api' = [op |-> "set_state", state |-> state, before |-> vm,
                     n |-> api.n + 1]
    /\ UNCHANGED <<vrun, raised, executed>>

(***************************************************************************)
(* The specifications, one per component.                                  *)
(***************************************************************************)
\* Parser parser(lexer.tokenize());
HandOver ==
    /\ lexDone
    /\ ptokens = <<>>
    /\ ptokens' = [i \in 1..Len(tokens) |->
                     [type |-> tokens[i].type, value |-> tokens[i].value,
                      line |-> tokens[i].line]]
    /\ presult' = [ok |-> FALSE, node |-> NullPtr, cur |-> 0, err |-> ""]
    /\ pstage' = "ready"
    /\ UNCHANGED pearlier

\* The parser's variables when no Parser has been constructed.
ParseIdle ==
    /\ ptokens = <<>>
    /\ presult = Raised("", 0)
    /\ pstage = "done"
    /\ pearlier = NoParse

LexNext == TokenizeStep /\ UNCHANGED <<parseVars, compVars, vmVars>>

InitLexer == LexInit /\ ParseIdle /\ CompIdle /\ VMIdle

SpecLexer == InitLexer /\ [][LexNext]_vars

InitOperators == OperatorInit /\ ParseIdle /\ CompIdle /\ VMIdle

SpecLexerOperators == InitOperators /\ [][LexNext]_vars

InitStripped == CommentedInit /\ ParseIdle /\ CompIdle /\ VMIdle

StrippedNext ==
    \/ TokenizeStep /\ UNCHANGED <<parseVars, compVars, vmVars>>
    \/ TokenizeStripped /\ UNCHANGED <<parseVars, compVars, vmVars>>

SpecLexerStripped == InitStripped /\ [][StrippedNext]_vars

ParseNext == Parse /\ UNCHANGED <<lexVars, compVars, vmVars>>

InitParser == LexIdle /\ ParseInit /\ CompIdle /\ VMIdle

SpecParser == InitParser /\ [][ParseNext]_vars

InitTerminated == LexIdle /\ TerminatedInit /\ CompIdle /\ VMIdle

TerminatedNext ==
    \/ Parse /\ UNCHANGED <<lexVars, compVars, vmVars>>
    \/ ParseUnterminated /\ UNCHANGED <<lexVars, compVars, vmVars>>

SpecParserTerminated == InitTerminated /\ [][TerminatedNext]_vars

CompNext ==
    \/ Compile /\ UNCHANGED <<lexVars, parseVars, vmVars>>
    \/ Recompile /\ UNCHANGED <<lexVars, parseVars, vmVars>>

InitFrontEnd == WordInit /\ ParseIdle /\ CompIdle /\ VMIdle

FrontEndNext ==
    \/ TokenizeStep /\ UNCHANGED <<parseVars, compVars, vmVars>>
    \/ HandOver /\ UNCHANGED <<lexVars, compVars, vmVars>>
    \/ Parse /\ UNCHANGED <<lexVars, compVars, vmVars>>

SpecFrontEnd == InitFrontEnd /\ [][FrontEndNext]_vars

InitCompiler == LexIdle /\ ParseIdle /\ CompInit /\ VMIdle

SpecCompiler == InitCompiler /\ [][CompNext]_vars

VMNext ==
    \/ Run /\ UNCHANGED <<lexVars, parseVars, compVars>>
    \/ RunStep /\ UNCHANGED <<lexVars, parseVars, compVars>>
    \/ RunReturn /\ UNCHANGED <<lexVars, parseVars, compVars>>

InitVM == LexIdle /\ ParseIdle /\ CompIdle /\ VMInit

SpecVM == InitVM /\ [][VMNext]_vars

VMApiNext ==
    \/ Allocate /\ UNCHANGED <<lexVars, parseVars, compVars>>
    \/ Deallocate /\ UNCHANGED <<lexVars, parseVars, compVars>>
    \/ ReadMemory /\ UNCHANGED <<lexVars, parseVars, compVars>>
    \/ WriteMemory /\ UNCHANGED <<lexVars, parseVars, compVars>>
    \/ Push /\ UNCHANGED <<lexVars, parseVars, compVars>>
    \/ Pop /\ UNCHANGED <<lexVars, parseVars, compVars>>
    \/ RunMemory /\ UNCHANGED <<lexVars, parseVars, compVars>>
    \/ RunStep /\ UNCHANGED <<lexVars, parseVars, compVars>>
    \/ RunReturn /\ UNCHANGED <<lexVars, parseVars, compVars>>

SpecVMApi == InitVM /\ [][VMApiNext]_vars

VMBranchNext ==
    \/ RunBranch /\ UNCHANGED <<lexVars, parseVars, compVars>>
    \/ RunStep /\ UNCHANGED <<lexVars, parseVars, compVars>>
    \/ RunReturn /\ UNCHANGED <<lexVars, parseVars, compVars>>

SpecVMBranch == InitVM /\ [][VMBranchNext]_vars

VMRerunNext ==
    \/ RunFirst /\ UNCHANGED <<lexVars, parseVars, compVars>>
    \/ RunAgain /\ UNCHANGED <<lexVars, parseVars, compVars>>
    \/ RunStep /\ UNCHANGED <<lexVars, parseVars, compVars>>
    \/ RunReturn /\ UNCHANGED <<lexVars, parseVars, compVars>>

SpecVMRerun == InitVM /\ [][VMRerunNext]_vars

InitVMStack == LexIdle /\ ParseIdle /\ CompIdle /\ StackInit

VMStackNext ==
    \/ PushByte /\ UNCHANGED <<lexVars, parseVars, compVars>>
    \/ PushWord /\ UNCHANGED <<lexVars, parseVars, compVars>>
    \/ PopWord /\ UNCHANGED <<lexVars, parseVars, compVars>>
    \/ PeekWord /\ UNCHANGED <<lexVars, parseVars, compVars>>

SpecVMStack == InitVMStack /\ [][VMStackNext]_vars

VMStateNext ==
    \/ RunForState /\ UNCHANGED <<lexVars, parseVars, compVars>>
    \/ RunStep /\ UNCHANGED <<lexVars, parseVars, compVars>>
    \/ RunReturn /\ UNCHANGED <<lexVars, parseVars, compVars>>
    \/ GetState /\ UNCHANGED <<lexVars, parseVars, compVars>>
    \/ SetState /\ UNCHANGED <<lexVars, parseVars, compVars>>

SpecVMState == InitVM /\ [][VMStateNext]_vars

\* run is sequential code: when its loop condition is false it returns.
SpecVMFair == InitVM /\ [][VMNext]_vars /\ WF_vmVars(RunReturn)

(***************************************************************************)
(* Lexer claims.                                                           *)
(***************************************************************************)
\* The 1-based line of the character at 0-based offset off, counted from the
\* text: one more than the number of newlines before it.
LineOfOffset(off) == 1 + Cardinality({i \in 1..off : source[i] = "\n"})

\* Its 1-based column: the distance from the last newline before it.
ColumnOfOffset(off) ==
    LET nls == {i \in 1..off : source[i] = "\n"}
        lastNl == IF nls = {} THEN 0 ELSE CHOOSE i \in nls : \A j \in nls : j <= i
    IN off - lastNl + 1

\* C6: the vector tokenize returns is finite (at most one token per
\* character, plus one), its last token is END_OF_FILE, and no earlier token
\* is END_OF_FILE.
C6_EofLastAndOnlyLast ==
    /\ Len(tokens) <= Len(source) + 1
    /\ \A i \in 1..Len(tokens) :
          (tokens[i].type = "END_OF_FILE") => (lexDone /\ i = Len(tokens))
    /\ lexDone => /\ Len(tokens) >= 1
                  /\ tokens[Len(tokens)].type = "END_OF_FILE"

C6_Witness ==
    /\ lexDone
    /\ Len(tokens) >= 3
    /\ tokens[Len(tokens)].type = "END_OF_FILE"

\* C7: lexing never aborts and terminates: every nextToken call made before
\* the end of the input strictly advances the scan position and never
\* moves it past the end; an unknown byte yields one ERROR token whose
\* lexeme is that byte and consumes exactly that byte; and tokenize has
\* consumed the whole input when it returns, after at most one call per
\* character plus one.
C7_LexingAdvancesAndTerminates ==
    /\ position <= Len(source)
    /\ Len(calls) = Len(tokens)
    /\ Len(calls) <= Len(source) + 1
    /\ \A i \in 1..Len(calls) :
          /\ calls[i].before <= calls[i].first
          /\ calls[i].first <= calls[i].after
          /\ calls[i].after <= Len(source)
          /\ (calls[i].before < Len(source)) => (calls[i].after > calls[i].before)
          /\ (tokens[i].type = "ERROR") =>
                /\ tokens[i].value = <<source[calls[i].first + 1]>>
                /\ calls[i].after = calls[i].first + 1
          /\ (tokens[i].type # "END_OF_FILE") => (calls[i].after > calls[i].first)
    /\ lexDone => position = Len(source)

\* An input with an unknown byte, an unterminated string and a trailing
\* backslash has been lexed to the end.
C7_Witness ==
    /\ lexDone
    /\ source = <<"@", "\"", "\\">>
    /\ Len(tokens) = 3
    /\ tokens[1].type = "ERROR"
    /\ tokens[2].type = "STRING"

\* C8: every token other than END_OF_FILE carries the 1-based line and
\* column of its first character.
C8_TokenPositionIsFirstCharacter ==
    \A i \in 1..Len(tokens) :
        (tokens[i].type # "END_OF_FILE") =>
            /\ tokens[i].line = LineOfOffset(calls[i].first)
            /\ tokens[i].column = ColumnOfOffset(calls[i].first)

\* The kinds and lexemes of a token vector, without the positions.
Spelled(toks) == [i \in 1..Len(toks) |-> <<toks[i].type, toks[i].value>>]

Retokenized(filler) == lexDone /\ earlier # NoText /\ earlier.filler = filler

\* C21 as stated: a text with every // and /* */ comment removed gives the
\* same token kinds and lexemes as the text itself.
C21_RemovingCommentsKeepsTokens ==
    Retokenized(<<>>) => Spelled(tokens) = Spelled(earlier.tokens)

\* C21: a text with every // and /* */ comment replaced by one space gives
\* the same token kinds and lexemes as the text itself.
C21_BlankingCommentsKeepsTokens ==
    Retokenized(<<" ">>) => Spelled(tokens) = Spelled(earlier.tokens)

\* A text with a block comment directly between two tokens has been
\* tokenized, and so has the text with a space in the comment's place.
C21_Witness ==
    /\ Retokenized(<<" ">>)
    /\ earlier.source = <<"a", "/", "*", "*", "/", "=">>
    /\ source = <<"a", " ", "=">>
    /\ Len(tokens) = 3

\* What a string literal whose body starts at offset i holds, read off the
\* text: a backslash with a character after it stands for that character's
\* escape, every other character for itself, up to the closing quote or
\* the end of the text.
RECURSIVE RefStringBody(_)
RefStringBody(i) ==
    IF i >= Len(source) THEN [closed |-> FALSE, value |-> <<>>]
    ELSE IF CharAt(i) = "\"" THEN [closed |-> TRUE, value |-> <<>>]
    ELSE IF CharAt(i) = "\\" /\ i + 1 < Len(source)
    THEN LET rest == RefStringBody(i + 2)
         IN [closed |-> rest.closed,
             value |-> <<decodeEscape(CharAt(i + 1), "\"")>> \o rest.value]
    ELSE LET rest == RefStringBody(i + 1)
         IN [closed |-> rest.closed, value |-> <<CharAt(i)>> \o rest.value]

\* C22: a string literal not closed before the end of the input gives one
\* STRING token holding the characters after the quote with escapes decoded
\* (a final backslash standing for itself), followed by END_OF_FILE; no
\* ERROR token is made of it.
C22_UnclosedStringIsAccepted ==
    lexDone =>
        \A k \in 1..Len(calls) :
            LET ref == RefStringBody(calls[k].first + 1)
            IN (CharAt(calls[k].first) = "\"" /\ ~ref.closed) =>
                   /\ tokens[k].type = "STRING"
                   /\ tokens[k].value = ref.value
                   /\ calls[k].after = Len(source)
                   /\ Len(tokens) = k + 1
                   /\ tokens[k + 1].type = "END_OF_FILE"

\* An unclosed string ending in a backslash has been lexed to the end.
C22_Witness ==
    /\ lexDone
    /\ source = <<"\"", "a", "\\">>
    /\ Len(tokens) = 2
    /\ tokens[1].type = "STRING"
    /\ tokens[1].value = <<"a", "\\">>

\* C32: when the input at the scan position starts with a two-character
\* operator, nextToken returns one token of the two-character kind whose
\* lexeme is both characters and consumes exactly two characters; it does
\* not return the token of the single-character prefix.
C32_TwoCharacterOperatorsFirst ==
    \A k \in 1..Len(calls) :
        \A op \in TwoCharOperators :
            (CharAt(calls[k].first) = op[1] /\ CharAt(calls[k].first + 1) = op[2]) =>
                /\ tokens[k].type = op[3]
                /\ tokens[k].value = <<op[1], op[2]>>
                /\ calls[k].after = calls[k].first + 2

\* "->=" has been lexed: ARROW for the first two characters, then EQUAL.
C32_Witness ==
    /\ lexDone
    /\ source = <<"-", ">", "=">>
    /\ Len(tokens) = 3
    /\ tokens[1].type = "ARROW"
    /\ tokens[1].value = <<"-", ">">>
    /\ tokens[2].type = "EQUAL"
    /\ calls[2].first = 2
(***************************************************************************)
(* Parser claims.  The reference tree of the tokens lo..hi is read off the *)
(* precedence table, without the parser: split at the operator that binds  *)
(* weakest outside all brackets (the rightmost of a left-associative       *)
(* level, the leftmost assignment), then peel prefix operators, then       *)
(* postfix calls and indexes, and what is left is a primary.               *)
(***************************************************************************)
Precedence(type) ==
    CASE type = "ASSIGN" -> 1
      [] type = "OR" -> 2
      [] type = "AND" -> 3
      [] type \in {"EQUAL_EQUAL", "NOT_EQUAL"} -> 4
      [] type \in {"LESS", "LESS_EQUAL", "GREATER", "GREATER_EQUAL"} -> 5
      [] type \in {"PLUS", "MINUS"} -> 6
      [] type \in {"MULTIPLY", "DIVIDE", "MODULO"} -> 7

Openers == {"LEFT_PAREN", "LEFT_BRACKET"}
Closers == {"RIGHT_PAREN", "RIGHT_BRACKET"}
OperandEnds == {"IDENTIFIER", "NUMBER", "STRING", "TRUE", "FALSE", "NULL_TOKEN"}
               \cup Closers

RefType(i) == ptokens[i].type

\* The brackets open before token i, counted from lo.
RefDepth(lo, i) ==
    Cardinality({j \in lo..(i - 1) : RefType(j) \in Openers})
    - Cardinality({j \in lo..(i - 1) : RefType(j) \in Closers})

RefBalanced(lo, hi) ==
    /\ \A i \in lo..hi : RefDepth(lo, i) >= 0
    /\ RefDepth(lo, hi + 1) = 0

\* The infix operators of lo..hi outside all brackets: after an operand.
RefInfix(lo, hi) ==
    {i \in (lo + 1)..hi : /\ RefType(i) \in InfixTypes
                          /\ RefDepth(lo, i) = 0
                          /\ RefType(i - 1) \in OperandEnds}

RefSplit(lo, hi) ==
    LET weakest == CHOOSE p \in 1..7 :
                      /\ \E i \in RefInfix(lo, hi) : Precedence(RefType(i)) = p
                      /\ \A i \in RefInfix(lo, hi) : Precedence(RefType(i)) >= p
        level == {i \in RefInfix(lo, hi) : Precedence(RefType(i)) = weakest}
    IN IF weakest = 1
       THEN CHOOSE i \in level : \A j \in level : i <= j
       ELSE CHOOSE i \in level : \A j \in level : i >= j

Malformed == Node("Malformed", "", <<>>, 0, <<>>, <<>>)
InvalidTarget == Node("InvalidTarget", "", <<>>, 0, <<>>, <<>>)

\* node, unless a part is no tree.
RefBuild(parts, node) ==
    IF \E i \in 1..Len(parts) : parts[i].type = "Malformed" THEN Malformed
    ELSE IF \E i \in 1..Len(parts) : parts[i].type = "InvalidTarget" THEN InvalidTarget
    ELSE node

RefInfixNode(left, op, right) ==
    IF op = "ASSIGN"
    THEN RefBuild(<<left, right>>,
                  IF left.type = "Variable" THEN AssignmentNode(left.text, right)
                  ELSE InvalidTarget)
    ELSE RefBuild(<<left, right>>, BinaryOpNode(left, op, right))

RefPrimary(i) ==
    CASE RefType(i) = "IDENTIFIER" -> VariableNode(ptokens[i].value)
      [] RefType(i) = "NUMBER" -> NumberNode(stod(ptokens[i].value))
      [] RefType(i) = "STRING" -> StringNode(ptokens[i].value)
      [] RefType(i) = "TRUE" -> BooleanNode(TRUE)
      [] RefType(i) = "FALSE" -> BooleanNode(FALSE)
      [] RefType(i) = "NULL_TOKEN" -> NullNode
      [] OTHER -> Malformed

\* The bracket that the closing bracket at hi closes.
RefOpener(lo, hi) ==
    CHOOSE o \in lo..(hi - 1) :
        /\ RefType(o) \in Openers
        /\ RefDepth(lo, o) = 0
        /\ \A j \in (o + 1)..(hi - 1) :
              ~(RefType(j) \in Openers /\ RefDepth(lo, j) = 0)

RefMatches(o, c) ==
    \/ RefType(o) = "LEFT_PAREN" /\ RefType(c) = "RIGHT_PAREN"
    \/ RefType(o) = "LEFT_BRACKET" /\ RefType(c) = "RIGHT_BRACKET"

RECURSIVE RefTree(_, _), RefList(_, _)

RefGroup(lo, hi, o) ==
    IF ~RefMatches(o, hi) THEN Malformed
    ELSE IF o = lo
    THEN IF RefType(lo) = "LEFT_PAREN"
         THEN RefTree(lo + 1, hi - 1)
         ELSE RefBuild(IF lo + 1 > hi - 1 THEN <<>> ELSE RefList(lo + 1, hi - 1),
                       ArrayNode(IF lo + 1 > hi - 1 THEN <<>> ELSE RefList(lo + 1, hi - 1)))
    ELSE IF RefType(o) = "LEFT_PAREN"
    THEN RefBuild(<<RefTree(lo, o - 1)>>
                     \o (IF o + 1 > hi - 1 THEN <<>> ELSE RefList(o + 1, hi - 1)),
                  CallNode(RefTree(lo, o - 1),
                           IF o + 1 > hi - 1 THEN <<>> ELSE RefList(o + 1, hi - 1)))
    ELSE RefBuild(<<RefTree(lo, o - 1), RefTree(o + 1, hi - 1)>>,
                  IndexNode(RefTree(lo, o - 1), RefTree(o + 1, hi - 1)))

\* The trees of a list separated by commas outside all brackets.
RefList(lo, hi) ==
    IF \E c \in lo..hi : RefType(c) = "COMMA" /\ RefDepth(lo, c) = 0
    THEN LET c == CHOOSE c \in lo..hi :
                     /\ RefType(c) = "COMMA" /\ RefDepth(lo, c) = 0
                     /\ \A d \in lo..(c - 1) : ~(RefType(d) = "COMMA" /\ RefDepth(lo, d) = 0)
         IN <<RefTree(lo, c - 1)>> \o RefList(c + 1, hi)
    ELSE <<RefTree(lo, hi)>>

RefTree(lo, hi) ==
    IF lo > hi \/ ~RefBalanced(lo, hi) THEN Malformed
    ELSE IF RefInfix(lo, hi) # {}
    THEN RefInfixNode(RefTree(lo, RefSplit(lo, hi) - 1), RefType(RefSplit(lo, hi)),
                      RefTree(RefSplit(lo, hi) + 1, hi))
    ELSE IF RefType(lo) \in {"NOT", "MINUS"}
    THEN RefBuild(<<RefTree(lo + 1, hi)>>, UnaryOpNode(RefType(lo), RefTree(lo + 1, hi)))
    ELSE IF lo = hi THEN RefPrimary(lo)
    ELSE IF RefType(hi) \in Closers THEN RefGroup(lo, hi, RefOpener(lo, hi))
    ELSE Malformed

\* The tokens before END_OF_FILE, and whether all of them are tokens of
\* expressions.
LastToken == Len(ptokens) - 1
ExpressionTypes ==
    InfixTypes \cup OperandEnds \cup Openers \cup {"NOT", "COMMA"}
ExpressionOnly == \A i \in 1..LastToken : RefType(i) \in ExpressionTypes
WellFormed(node) == node.type \notin {"Malformed", "InvalidTarget"}
TypesOf(toks) == [i \in 1..Len(toks) |-> toks[i].type]

\* C9: for every token sequence of operands and operators, the tree that
\* the parser returns is the tree of the reference precedence table
\* (assignment, ||, &&, equality, relational, additive, multiplicative,
\* unary prefix, postfix, primary; binary levels left-associative,
\* assignment and unary prefix right-associative): a sequence with a
\* reference tree parses to a Program of that one tree, and a sequence of
\* expression tokens that parses to one statement has that tree as its
\* reference tree.
C9_TreeFollowsPrecedenceTable ==
    (pstage = "done" /\ Len(ptokens) >= 2) =>
        /\ WellFormed(RefTree(1, LastToken)) =>
              /\ presult.ok
              /\ presult.node = ProgramNode(<<RefTree(1, LastToken)>>)
        /\ (ExpressionOnly /\ presult.ok /\ Len(presult.node.kids) = 1) =>
              presult.node.kids[1] = RefTree(1, LastToken)

\* a + b * c parsed as +(a, *(b, c)).
C9_Witness ==
    /\ pstage = "done"
    /\ TypesOf(ptokens) = <<"IDENTIFIER", "PLUS", "IDENTIFIER", "MULTIPLY",
                            "IDENTIFIER", "END_OF_FILE">>
    /\ presult.ok
    /\ presult.node =
          ProgramNode(<<BinaryOpNode(VariableNode(<<"a">>), "PLUS",
                            BinaryOpNode(VariableNode(<<"c">>), "MULTIPLY",
                                         VariableNode(<<"e">>)))>>)

\* The leftmost assignment operator outside all brackets.
FirstAssign ==
    CHOOSE k \in 1..LastToken :
        /\ k \in RefInfix(1, LastToken) /\ RefType(k) = "ASSIGN"
        /\ \A j \in RefInfix(1, LastToken) : RefType(j) = "ASSIGN" => k <= j

\* C10: where lhs = rhs is an assignment with a well-formed left-hand side,
\* the parse fails with "Invalid assignment target" and returns no AST when
\* the left-hand side is not an identifier (and likewise when an assignment
\* inside rhs has such a target), and else returns the Assignment node of
\* the identifier and the tree of rhs; a = b = c is a = (b = c).
C10_AssignmentTarget ==
    (/\ pstage = "done" /\ Len(ptokens) >= 2
     /\ \E k \in RefInfix(1, LastToken) : RefType(k) = "ASSIGN"
     /\ WellFormed(RefTree(1, FirstAssign - 1))
     /\ RefTree(FirstAssign + 1, LastToken).type # "Malformed") =>
        /\ IF /\ RefTree(1, FirstAssign - 1).type = "Variable"
              /\ WellFormed(RefTree(FirstAssign + 1, LastToken))
           THEN /\ presult.ok
                /\ presult.node =
                      ProgramNode(<<AssignmentNode(RefTree(1, FirstAssign - 1).text,
                                                   RefTree(FirstAssign + 1, LastToken))>>)
           ELSE /\ ~presult.ok
                /\ presult.err = "Invalid assignment target"
                /\ presult.node = NullPtr
        /\ TypesOf(ptokens) = <<"IDENTIFIER", "ASSIGN", "IDENTIFIER", "ASSIGN",
                                "IDENTIFIER", "END_OF_FILE">> =>
              presult.node =
                  ProgramNode(<<AssignmentNode(<<"a">>,
                                    AssignmentNode(<<"c">>, VariableNode(<<"e">>)))>>)

\* a[2] = f parsed: the index expression is no assignment target.
C10_Witness ==
    /\ pstage = "done"
    /\ TypesOf(ptokens) = <<"IDENTIFIER", "LEFT_BRACKET", "NUMBER", "RIGHT_BRACKET",
                            "ASSIGN", "IDENTIFIER", "END_OF_FILE">>
    /\ ~presult.ok
    /\ presult.err = "Invalid assignment target"

\* The tokens of the vector before its END_OF_FILE.
TokensBeforeEof == Len(ptokens) - 1

\* TRUE iff the lexer handed over an ERROR token.
HasErrorToken == \E i \in 1..Len(ptokens) : ptokens[i].type = "ERROR"

\* C11: parsing is fail-fast.  When parse raises it returns no tree; when it
\* returns, it returns a Program and every token before END_OF_FILE was
\* consumed; and a token vector with an ERROR token makes parse raise
\* "Unexpected token".
C11_NoPartialTree ==
    pstage = "done" =>
        /\ ~presult.ok => presult.node = NullPtr /\ presult.err # ""
        /\ presult.ok => /\ presult.node.type = "Program"
                         /\ presult.cur = TokensBeforeEof
                         /\ ~HasErrorToken

C11_ParsingIsFailFast ==
    /\ C11_NoPartialTree
    /\ pstage = "done" /\ HasErrorToken => presult.err = "Unexpected token"


\* Parser::parse has been applied to a single literal token.
SingleLiteral ==
    /\ pstage = "done"
    /\ Len(ptokens) = 2
    /\ ptokens[1].type \in LiteralTypes

\* C23: an expression that is a single NUMBER, FLOAT, STRING or CHAR token
\* parses to a literal node; none of them raises "Unexpected token".
C23_LiteralsArePrimaries ==
    SingleLiteral =>
        /\ presult.ok
        /\ Len(presult.node.kids) = 1
        /\ presult.node.kids[1].type \in {"Number", "String"}
        /\ presult.node.kids[1].kids = <<>>

\* The NUMBER and STRING half of C23, which the parser keeps.
C23_NumberAndStringArePrimaries ==
    (SingleLiteral /\ ptokens[1].type \in {"NUMBER", "STRING"}) =>
        /\ presult.ok
        /\ Len(presult.node.kids) = 1
        /\ presult.node.kids[1].type \in {"Number", "String"}

\* Parser::parse has been applied to a vector and to the same vector
\* without one of its terminators, and accepted the first.
ParsedBothWays ==
    /\ pstage = "done"
    /\ pearlier # NoParse
    /\ pearlier.result.ok

\* The vector has a RETURN directly before a '}'.
BareReturnBeforeBrace ==
    \E i \in 1..(Len(ptokens) - 1) :
        ptokens[i].type = "RETURN" /\ ptokens[i + 1].type = "RIGHT_BRACE"

\* C33: an expression statement or return statement that parses when
\* followed by ';' parses to the same node when the ';' is left out and the
\* next token is '}' or END_OF_FILE, a value-less return before a closing
\* '}' included.
C33_TerminatorIsOptional ==
    ParsedBothWays =>
        /\ presult.ok
        /\ presult.node = pearlier.result.node

\* C33 for every statement but the value-less return before '}'.
C33_OptionalButAfterBareReturn ==
    (ParsedBothWays /\ ~BareReturnBeforeBrace) =>
        /\ presult.ok
        /\ presult.node = pearlier.result.node

\* The token cursors a parse function can be entered with.
Cursors == 0..Len(ptokens)

\* What a parse function entered at cursor cur left in r: the cursor did not
\* go back and is within the vector.
CursorAdvanced(cur, r) == cur <= r.cur /\ r.cur <= Len(ptokens)

\* As CursorAdvanced, and if the function returned it consumed a token.
TokenConsumed(cur, r) == CursorAdvanced(cur, r) /\ (r.ok => r.cur > cur)

\* C34: for every token vector ending in END_OF_FILE parse terminates,
\* returning a tree or raising; the token cursor never decreases and never
\* exceeds the length of the vector, a parseStatement call that returns has
\* consumed at least one token, and the loops of parseProgram, parseBlock
\* and parsePostfix consume at least one token per iteration.  The loops of
\* parseProgram and parseBlock call parseStatement once per iteration; the
\* loop of parsePostfix is entered at '(' or '['.  Each is taken from every
\* position of the vector.
C34_ParseTerminates ==
    pstage = "done" =>
        /\ presult.cur \in Cursors
        /\ presult.ok \/ presult.err # ""
        /\ Len(ptokens) > 0 =>
              \A cur \in Cursors :
                  /\ TokenConsumed(cur, parseStatement(cur))
                  /\ CursorAdvanced(cur, parsePostfixLoop(Parsed(NullNode, cur)))
                  /\ (check(cur, "LEFT_PAREN") \/ check(cur, "LEFT_BRACKET")) =>
                         parsePostfixLoop(Parsed(NullNode, cur)).cur > cur

\* A function declaration with two parameters and a return in its body has
\* been parsed to the end of the vector.
C34_Witness ==
    /\ pstage = "done"
    /\ presult.ok
    /\ Len(ptokens) = 13
    /\ ptokens[1].type = "FUNCTION"
    /\ presult.cur = 12

\* The character at which the k-th token starts.
FirstChar(k) == CharAt(calls[k].first)

\* C35: the tag of a token tells a literal from a keyword: every token
\* tagged STRING was scanned from a string literal and every token tagged
\* FLOAT from a number, and the parser makes a string literal node of no
\* keyword.
C35_TagsTellLiteralsFromKeywords ==
    /\ \A k \in 1..Len(tokens) :
          /\ tokens[k].type = "STRING" => FirstChar(k) = "\""
          /\ tokens[k].type = "FLOAT" => isdigit(FirstChar(k))
    /\ (pstage = "done" /\ presult.ok /\ Len(tokens) = 2 /\ FirstChar(1) # "\"") =>
          presult.node.kids[1].type # "String"

\* The part of C35 that the keyword table keeps: a token scanned from a
\* string literal is tagged STRING and carries the decoded characters, and
\* a word that is neither `string` nor `float` gets a tag that no literal
\* has.
C35_OtherKeywordsAreApart ==
    \A k \in 1..Len(tokens) :
        /\ FirstChar(k) = "\"" => tokens[k].type = "STRING"
        /\ (isalpha(FirstChar(k))
              /\ tokens[k].value \notin {<<"s", "t", "r", "i", "n", "g">>,
                                         <<"f", "l", "o", "a", "t">>}) =>
               tokens[k].type \notin {"STRING", "FLOAT", "NUMBER", "CHAR"}

(***************************************************************************)
(* Compiler claims.                                                        *)
(***************************************************************************)
\* compile() returned a module.
Compiled == cstage = "done" /\ comp.err = ""

IsJump(instr) == instr.opcode \in {"Jump", "JumpIfFalse"}

\* The label a jump names.
JumpLabel(instr) ==
    IF instr.opcode = "Jump" THEN instr.operands[1] ELSE instr.operands[2]

LabelMarked(label) ==
    \E e \in 1..Len(comp.label_positions_) : comp.label_positions_[e][1] = label

\* The position recorded for a label.
LabelPosition(label) ==
    comp.label_positions_[CHOOSE e \in 1..Len(comp.label_positions_) :
                             comp.label_positions_[e][1] = label][2]

\* C1: in every function of a successful compilation, the position recorded
\* for the label of every Jump and JumpIfFalse is an index of the
\* function's instruction vector (0 <= position < length), and a
\* JumpIfFalse, always a forward jump, has its target after itself.
\* (Instruction i of the sequence has index i - 1.)
C1_JumpTargetsAreValidIndexes ==
    Compiled =>
        \A f \in 1..Len(comp.module.functions) :
            \A i \in 1..Len(comp.module.functions[f].bytecode) :
                IsJump(comp.module.functions[f].bytecode[i]) =>
                    /\ LabelMarked(JumpLabel(comp.module.functions[f].bytecode[i]))
                    /\ LabelPosition(JumpLabel(comp.module.functions[f].bytecode[i])) >= 0
                    /\ LabelPosition(JumpLabel(comp.module.functions[f].bytecode[i]))
                          < Len(comp.module.functions[f].bytecode)
                    /\ comp.module.functions[f].bytecode[i].opcode = "JumpIfFalse" =>
                          LabelPosition(JumpLabel(comp.module.functions[f].bytecode[i]))
                              > i - 1

\* C2: after a successful compilation every LoadConst names an entry of the
\* module's constant pool and every Call names a registered function.
C2_OperandsAreInRange ==
    Compiled =>
        \A f \in 1..Len(comp.module.functions) :
            \A i \in 1..Len(comp.module.functions[f].bytecode) :
                /\ comp.module.functions[f].bytecode[i].opcode = "LoadConst" =>
                      comp.module.functions[f].bytecode[i].operands[1]
                          < Len(comp.module.constants)
                /\ comp.module.functions[f].bytecode[i].opcode = "Call" =>
                      comp.module.functions[f].bytecode[i].operands[1]
                          < Len(comp.module.functions)

\* The indexes control can reach next from instruction i of a function's
\* bytecode.
Successors(bytecode, i) ==
    CASE bytecode[i + 1].opcode = "Return" -> {}
      [] bytecode[i + 1].opcode = "Jump" ->
            {LabelPosition(JumpLabel(bytecode[i + 1]))}
      [] bytecode[i + 1].opcode = "JumpIfFalse" ->
            {i + 1, LabelPosition(JumpLabel(bytecode[i + 1]))}
      [] OTHER -> {i + 1}

\* C3: in every function of a successful compilation Return is the last
\* instruction, and from no instruction does control run or jump past the
\* end of the instruction vector.
C3_EveryPathEndsInReturn ==
    Compiled =>
        \A f \in 1..Len(comp.module.functions) :
            /\ comp.module.functions[f].bytecode # <<>>
            /\ comp.module.functions[f].bytecode[
                  Len(comp.module.functions[f].bytecode)].opcode = "Return"
            /\ \A i \in 0..(Len(comp.module.functions[f].bytecode) - 1) :
                  \A t \in Successors(comp.module.functions[f].bytecode, i) :
                      t < Len(comp.module.functions[f].bytecode)

\* A compile() on this Compiler has returned a module.
Finished == cstage \in {"done", "again"} /\ comp.err = ""

\* The FunctionDef and ForLoop statements of the body of f.
ScopedStatements ==
    { i \in 1..Len(cast.kids[Len(cast.kids)].kids[1].kids) :
        cast.kids[Len(cast.kids)].kids[1].kids[i].type \in {"FunctionDef", "ForLoop"} }

\* The compiler inside f, about to visit a statement of its body.
InsideF == enterFunction(comp, cast.kids[Len(cast.kids)])

\* C17: the scope stack is empty when a compilation finishes successfully,
\* and lowering a FunctionDef or a ForLoop without an exception leaves the
\* scope stack as deep as it was before the node was visited.
C17_ScopesAreBalanced ==
    /\ Finished => comp.scope_stack_ = <<>>
    /\ cstage = "ready" =>
          \A i \in ScopedStatements :
              visitNode(InsideF, cast.kids[Len(cast.kids)].kids[1].kids[i]).err = "" =>
                  Len(visitNode(InsideF, cast.kids[Len(cast.kids)].kids[1].kids[i]).scope_stack_)
                      = Len(InsideF.scope_stack_)

\* The statements of the body of f, the last function of the program.
BodyOfF == cast.kids[Len(cast.kids)].kids[1].kids

\* The names of the functions that the program declares, and of those that
\* the body of f calls.
DeclaredNames ==
    { cast.kids[i].text : i \in {j \in 1..Len(cast.kids) : cast.kids[j].type = "FunctionDef"} }
    \cup { BodyOfF[i].text : i \in {j \in 1..Len(BodyOfF) : BodyOfF[j].type = "FunctionDef"} }

CalledNames ==
    { BodyOfF[i].text : i \in {j \in 1..Len(BodyOfF) : BodyOfF[j].type = "FunctionCall"} }

\* C18: a function may call itself.  Compiling raises "Undefined function"
\* only when the program calls a name that it declares nowhere, so not for
\* f(c) in the body of f; and in a successful compilation the function
\* operand of every Call is the index under which the called function (f
\* for the call with one argument, g for the call with none) is registered
\* in the module.
C18_RecursionCompiles ==
    cstage = "done" =>
        /\ comp.err = "Undefined function" => \E name \in CalledNames : name \notin DeclaredNames
        /\ comp.err = "" =>
              \A f \in 1..Len(comp.module.functions) :
                  \A i \in 1..Len(comp.module.functions[f].bytecode) :
                      comp.module.functions[f].bytecode[i].opcode = "Call" =>
                          /\ comp.module.functions[f].bytecode[i].operands[1] + 1
                                \in 1..Len(comp.module.functions)
                          /\ comp.module.functions[
                                comp.module.functions[f].bytecode[i].operands[1] + 1].name
                                = IF comp.module.functions[f].bytecode[i].operands[2] = 1
                                  THEN "f" ELSE "g"

\* The tokens of for (;;) { }
EmptyForTokens ==
    MkTokens(<<"FOR", "LEFT_PAREN", "SEMICOLON", "SEMICOLON", "RIGHT_PAREN",
               "LEFT_BRACE", "RIGHT_BRACE">>)

\* C19: for (;;) { } parses, to a For node without init, condition and
\* increment, and compiles; the bytecode of function f() { for (;;) { } }
\* has no JumpIfFalse and starts with the loop: its label at index 0 and,
\* the body being empty, the Jump to that label at index 0.
C19_EmptyForLowersToJump ==
    /\ (pstage = "done" /\ ptokens = EmptyForTokens) =>
          /\ presult.ok
          /\ presult.node =
                ProgramNode(<<ForNode(NullPtr, NullPtr, NullPtr, BlockNode(<<>>))>>)
    /\ (cstage = "done" /\ Len(cast.kids) = 1 /\ Len(BodyOfF) = 1
            /\ BodyOfF[1] \in EmptyForLoops) =>
          /\ comp.err = ""
          /\ \A i \in 1..Len(comp.module.functions[1].bytecode) :
                comp.module.functions[1].bytecode[i].opcode # "JumpIfFalse"
          /\ comp.module.functions[1].bytecode[1].opcode = "Jump"
          /\ LabelMarked(JumpLabel(comp.module.functions[1].bytecode[1]))
          /\ LabelPosition(JumpLabel(comp.module.functions[1].bytecode[1])) = 0

\* C20: in a successful compilation every Return without a value register,
\* that of return; and the one appended to a function, comes right after a
\* LoadConst whose operand names a constant-pool entry that holds nil.
C20_ReturnLoadsNil ==
    (cstage = "done" /\ comp.err = "") =>
        \A f \in 1..Len(comp.module.functions) :
            \A i \in 1..Len(comp.module.functions[f].bytecode) :
                ( /\ comp.module.functions[f].bytecode[i].opcode = "Return"
                  /\ comp.module.functions[f].bytecode[i].operands = <<>> ) =>
                    /\ i > 1
                    /\ comp.module.functions[f].bytecode[i - 1].opcode = "LoadConst"
                    /\ comp.module.functions[f].bytecode[i - 1].operands[1] + 1
                          \in 1..Len(comp.module.constants)
                    /\ comp.module.constants[
                          comp.module.functions[f].bytecode[i - 1].operands[1] + 1].kind = "nil"

\* The operands of an instruction that name registers.
RegisterOperands(instr) ==
    CASE instr.opcode \in {"Add", "Sub", "Mul", "Div", "Mod", "Equal", "NotEqual",
                           "Less", "LessEqual", "Greater", "GreaterEqual", "And",
                           "Or", "IndexLoad"} ->
             {instr.operands[1], instr.operands[2]}
      [] instr.opcode \in {"Neg", "Not", "JumpIfFalse"} -> {instr.operands[1]}
      [] instr.opcode = "StoreVar" -> {instr.operands[2]}
      [] instr.opcode = "Return" -> {instr.operands[i] : i \in 1..Len(instr.operands)}
      [] OTHER -> {}

\* Every instruction emitted so far: those of the registered functions and
\* those in the current buffer.
Emitted ==
    {comp.current_bytecode_[i] : i \in 1..Len(comp.current_bytecode_)}
    \cup UNION { {comp.module.functions[f].bytecode[i] :
                     i \in 1..Len(comp.module.functions[f].bytecode)} :
                 f \in 1..Len(comp.module.functions) }

\* The counter as the Compiler's first allocateRegister found it, or as it
\* is if there has been none.
FirstCounter ==
    IF comp.allocations = <<>> THEN comp.current_register_ ELSE comp.allocations[1][1]

\* No call of allocateRegister lowered the counter, none raised it above
\* MAX_REGISTERS, one that found it at MAX_REGISTERS left it there and
\* ended the compilation with "Register overflow", and nothing else
\* changed the counter between the calls.
AllocationsAreMonotonic ==
    /\ \A i \in 1..Len(comp.allocations) :
          /\ comp.allocations[i][2] >= comp.allocations[i][1]
          /\ comp.allocations[i][1] <= MAX_REGISTERS =>
                comp.allocations[i][2] <= MAX_REGISTERS
          /\ comp.allocations[i][1] = MAX_REGISTERS =>
                comp.allocations[i][2] = MAX_REGISTERS
          /\ i > 1 => comp.allocations[i][1] = comp.allocations[i - 1][2]
    /\ comp.allocations # <<>> =>
          /\ comp.current_register_ = comp.allocations[Len(comp.allocations)][2]
          /\ (cstage = "done"
                /\ comp.allocations[Len(comp.allocations)][1] = MAX_REGISTERS) =>
                comp.err = "Register overflow: too many temporary values"

\* C25: the register counter never decreases and never exceeds
\* MAX_REGISTERS, an allocation attempted at MAX_REGISTERS fails with
\* "Register overflow" and leaves the counter as it is, and every register
\* operand of an emitted instruction lies in 0..MAX_REGISTERS-1.
C25_RegisterCounterIsBounded ==
    /\ comp.current_register_ \in 0..MAX_REGISTERS
    /\ AllocationsAreMonotonic
    /\ \A instr \in Emitted : RegisterOperands(instr) \subseteq 0..(MAX_REGISTERS - 1)

\* C25 for a Compiler whose counter started within 0..MAX_REGISTERS.
C25_BoundedWhenStartedInRange ==
    FirstCounter <= MAX_REGISTERS => C25_RegisterCounterIsBounded

\* The names that the identifiers of a tree read.
RECURSIVE Reads(_)
Reads(node) ==
    IF node.type \in {"nullptr", "indeterminate"} THEN {}
    ELSE (IF node.type = "Identifier" THEN {node.text} ELSE {})
         \cup UNION { Reads(node.kids[i]) : i \in 1..Len(node.kids) }

\* The names in scope in the body of f: its parameter c, and the loop
\* variable i, which every for loop of the inputs assigns in its init
\* clause and reads after it.
NamesInScope == {"c", "i"}

\* C26: an identifier that names a parameter or variable of an enclosing
\* scope resolves: a program that reads only the parameter c of f and the
\* loop variable i, inside or outside a for loop, does not fail with
\* "Undefined variable".
C26_EnclosingScopesAreSearched ==
    (cstage = "done" /\ Reads(cast) \subseteq NamesInScope) =>
        comp.err # "Undefined variable"

\* C26 outside for loops: the parameter c resolves in the function's own
\* scope.
C26_TopScopeIsSearched ==
    (cstage = "done" /\ Reads(cast) \subseteq NamesInScope
       /\ \A i \in 1..Len(BodyOfF) : BodyOfF[i].type # "ForLoop") =>
        comp.err # "Undefined variable"

\* The compiler as compile() has it when it reaches the declaration of f,
\* the last statement of the program: the statements before f lowered.
BeforeF ==
    visitStatements([comp EXCEPT !.module = BytecodeModule, !.err = ""],
                    SubSeq(cast.kids, 1, Len(cast.kids) - 1), 1)

\* The compiler after the declaration of f has been lowered from there.
AfterF == visitNode(BeforeF, cast.kids[Len(cast.kids)])

\* The bytecode of f lowered on its own, with nothing in the buffer.
OwnBytecode ==
    visitNode([BeforeF EXCEPT !.current_bytecode_ = <<>>],
              cast.kids[Len(cast.kids)]).module.functions

\* C27: the bytecode registered for f is what its own body lowers to, with
\* the appended LoadConst and Return if any, and the instructions emitted
\* for the enclosing code before the declaration are in the current buffer
\* after it, unchanged.
C27_BufferIsSavedAndRestored ==
    /\ (cstage = "ready" /\ AfterF.err = "") =>
          /\ AfterF.module.functions[Len(AfterF.module.functions)].bytecode
                = OwnBytecode[Len(OwnBytecode)].bytecode
          /\ AfterF.current_bytecode_ = BeforeF.current_bytecode_
    /\ (Compiled /\ cast.kids[1].type = "Literal") =>
          comp.current_bytecode_ = <<Instruction("LoadConst", <<0>>)>>

\* C27 for a declaration with nothing emitted before it: the function gets
\* the instructions of its body and the buffer is empty afterwards.
C27_HoldsOnAnEmptyBuffer ==
    (cstage = "ready" /\ AfterF.err = "" /\ BeforeF.current_bytecode_ = <<>>
       /\ \A i \in 1..Len(BodyOfF) : BodyOfF[i].type # "FunctionDef") =>
          /\ AfterF.module.functions[Len(AfterF.module.functions)].bytecode
                = OwnBytecode[Len(OwnBytecode)].bytecode
          /\ AfterF.current_bytecode_ = BeforeF.current_bytecode_

\* The calls of the trace that are calls of the given function.
TraceOf(call) == { k \in 1..Len(comp.trace) : comp.trace[k].call = call }

\* The first emit after call k of the trace, if there is one.
NextEmit(k) ==
    { e \in TraceOf("emit") :
        e > k /\ \A between \in (k + 1)..(e - 1) : comp.trace[between].call # "emit" }

\* C28: genLabel never returns the same integer twice; every label that a
\* Jump or JumpIfFalse of a successful compilation names was returned by
\* genLabel and then marked, exactly once; and the position markLabel
\* records for a label is the index of the instruction emitted next.
C28_LabelsAreFreshAndMarked ==
    /\ \A g, h \in TraceOf("genLabel") :
          comp.trace[g].label = comp.trace[h].label => g = h
    /\ \A m \in TraceOf("markLabel") :
          /\ \E g \in TraceOf("genLabel") :
                g < m /\ comp.trace[g].label = comp.trace[m].label
          /\ \A e \in NextEmit(m) : comp.trace[e].index = comp.trace[m].index
          /\ LabelMarked(comp.trace[m].label)
          /\ LabelPosition(comp.trace[m].label) = comp.trace[m].index
    /\ Finished =>
          \A instr \in Emitted :
              IsJump(instr) =>
                  Cardinality({ m \in TraceOf("markLabel") :
                                  comp.trace[m].label = JumpLabel(instr) }) = 1

\* C28 for programs that declare no function inside f: there the buffer is
\* never emptied between a markLabel and the emit after it.
C28_HoldsWithoutNestedDeclarations ==
    (cstage \in {"ready", "done"}
       /\ \A i \in 1..Len(BodyOfF) : BodyOfF[i].type # "FunctionDef") =>
        C28_LabelsAreFreshAndMarked

\* The Compiler objects that a constructor call can give.
FreshCompilers ==
    { [NewCompiler EXCEPT !.current_register_ = r] : r \in IndeterminateRegisters }

\* C36: compilation depends only on the AST.  A second compile on the same
\* Compiler, after one that succeeded or one that raised, gives the module
\* (or the exception) that a freshly constructed Compiler gives for that
\* AST.
C36_CompileDependsOnlyOnTheAst ==
    cstage = "again" =>
        \E fresh \in FreshCompilers :
            /\ compile(fresh, cast).module = comp.module
            /\ compile(fresh, cast).err = comp.err

(***************************************************************************)
(* Register VM claims.                                                     *)
(***************************************************************************)
\* The instruction the loop of run is about to execute.
Fetched == vm.program_[vm.pc_ + 1]

\* One instruction is executed in this step.
Executes == vrun = "running" /\ executed' = executed + 1

\* C4: when an instruction raises a runtime error, run raises it to its
\* caller with pc, the registers, sp, the heap, the stack and the call stack
\* exactly as they were before that instruction, and once run has raised no
\* further instruction is executed.
C4_ErrorsAreFailFastAndAtomic ==
    [][ /\ (Executes /\ raised' # "") =>
              /\ vrun' = "raised"
              /\ vm'.pc_ = vm.pc_
              /\ vm'.registers_ = vm.registers_
              /\ vm'.sp_ = vm.sp_
              /\ vm'.heap_ = vm.heap_
              /\ vm'.stack_ = vm.stack_
              /\ vm'.call_stack_ = vm.call_stack_
        /\ vrun = "raised" => UNCHANGED vmVars ]_vars

\* A division by zero raised at index 1, after R1 was loaded.
C4_Witness ==
    /\ vrun = "raised"
    /\ raised = "Division by zero"
    /\ vm.pc_ = 1
    /\ vm.registers_[1] = Word(HeapSize - BYTES + 1)
    /\ executed = 2

\* C5: CALL at index p pushes p on the call stack and the next instruction
\* is its target; RET with a non-empty call stack pops the top entry p and
\* the next instruction is p + 1, so the depth after the RET is the depth
\* before the CALL that pushed p; every entry of the call stack is the index
\* of a CALL; RET with an empty call stack fails "Return from empty call
\* stack".
C5_CallAndRetAreBalanced ==
    /\ [](\A e \in 1..Len(vm.call_stack_) :
              /\ vm.call_stack_[e] + 1 \in 1..Len(vm.program_)
              /\ vm.program_[vm.call_stack_[e] + 1].opcode = "CALL")
    /\ [][ Executes =>
              /\ Fetched.opcode = "CALL" =>
                    /\ raised' = ""
                    /\ vm'.call_stack_ = Append(vm.call_stack_, vm.pc_)
                    /\ vm'.pc_ = Fetched.immediate
              /\ (Fetched.opcode = "RET" /\ vm.call_stack_ # <<>>) =>
                    /\ raised' = ""
                    /\ vm'.pc_ = vm.call_stack_[Len(vm.call_stack_)] + 1
                    /\ Len(vm'.call_stack_) = Len(vm.call_stack_) - 1
                    /\ vm'.call_stack_ = SubSeq(vm.call_stack_, 1, Len(vm'.call_stack_))
              /\ (Fetched.opcode = "RET" /\ vm.call_stack_ = <<>>) =>
                    /\ raised' = "Return from empty call stack"
                    /\ vm'.call_stack_ = <<>> ]_vars

\* CALL 2 at index 0, RET at index 2, then HALT at index 1: run has
\* returned with the call stack back at depth 0.
C5_Witness ==
    /\ vrun = "returned"
    /\ vm.program_ = <<Jump("CALL", 0, 0, 2), Op0("HALT"), Op0("RET")>>
    /\ executed = 3
    /\ vm.pc_ = 2
    /\ vm.halt_flag_
    /\ vm.call_stack_ = <<>>

\* C12: whenever run ends with an error, raised to its caller, the halt flag
\* is set.  (The register VM records no error message: an error is the
\* exception that run raises.)
C12_ErrorImpliesHalted == (vrun = "raised" /\ raised # "") => vm.halt_flag_

\* pc >= program length
PcOutside == vm.pc_ = PC_MAX \/ vm.pc_ >= Len(vm.program_)

\* C13: run returns normally exactly when the halt flag is set or pc is
\* outside the program: it returns only then, and then it executes no
\* further instruction and does return.  HALT at index h raises nothing,
\* sets the halt flag and leaves pc = h + 1, after which run returns with
\* the halt flag set and pc = h + 1.
C13_RunReturnsWhenHaltedOrOutside ==
    /\ [][ /\ (vrun = "running" /\ vrun' = "returned") =>
                  /\ vm.halt_flag_ \/ PcOutside
                  /\ vm' = vm
           /\ (vm.halt_flag_ \/ PcOutside) => ~Executes
           /\ (Executes /\ Fetched.opcode = "HALT") =>
                  /\ raised' = ""
                  /\ vm'.halt_flag_
                  /\ vm'.pc_ = vm.pc_ + 1 ]_vars
    /\ [](vrun = "returned" => vm.halt_flag_ \/ PcOutside)
    /\ (vrun = "running" /\ (vm.halt_flag_ \/ PcOutside)) ~> (vrun = "returned")

\* HALT at index 0 of a longer program: run has returned after that one
\* instruction, with pc = 1 inside the program.
C13_Witness ==
    /\ vrun = "returned"
    /\ executed = 1
    /\ vm.halt_flag_
    /\ vm.pc_ = 1
    /\ Len(vm.program_) > 1
    /\ vm.program_[1].opcode = "HALT"

\* This step is a call of the interface function op.
Calls(op) == api'.n = api.n + 1 /\ api'.op = op

\* n bytes at addr do not fit between addr and the end of a buffer of
\* capacity bytes (addr, n: 64-bit words; the sum is not wrapped).
Exceeds(addr, n, capacity) ==
    ~IsSmall(addr) \/ ~IsSmall(n) \/ ToNat(addr) + ToNat(n) > capacity

\* C14: 0 <= heap_alloc_ptr <= heap_size always.  A successful allocate(n)
\* returns heap_alloc_ptr as it was before the call and advances it by
\* exactly n, the region lying inside the heap (so successive regions are
\* disjoint); allocate fails with "out of memory", leaving heap_alloc_ptr
\* and the heap unchanged, whenever n exceeds the remaining space; and
\* deallocate never changes heap_alloc_ptr.
C14_BumpAllocation ==
    /\ [](0 <= vm.heap_alloc_ptr_ /\ vm.heap_alloc_ptr_ <= vm.heap_size_)
    /\ [][ /\ Calls("allocate") =>
                  IF Exceeds(Word(vm.heap_alloc_ptr_), api'.size, vm.heap_size_)
                  THEN /\ raised' = "Heap allocation failed: out of memory"
                       /\ vm'.heap_alloc_ptr_ = vm.heap_alloc_ptr_
                       /\ vm'.heap_ = vm.heap_
                  ELSE /\ raised' = ""
                       /\ api'.ret = Word(vm.heap_alloc_ptr_)
                       /\ vm'.heap_alloc_ptr_ = vm.heap_alloc_ptr_ + ToNat(api'.size)
                       /\ ~api'.overrun
           /\ Calls("deallocate") => vm'.heap_alloc_ptr_ = vm.heap_alloc_ptr_ ]_vars

\* C15: push(value, size) fails with "Stack overflow" exactly when
\* sp + size > stack_size, and pop(size) fails with "Stack underflow"
\* exactly when sp < size; a failing call leaves sp and the stack
\* unchanged; a successful push raises sp by size and a successful pop
\* lowers it by size.
C15_StackBounds ==
    [][ /\ Calls("push") =>
              IF Exceeds(Word(vm.sp_), api'.size, vm.stack_size_)
              THEN /\ raised' = "Stack overflow"
                   /\ vm'.sp_ = vm.sp_
                   /\ vm'.stack_ = vm.stack_
              ELSE /\ raised' = ""
                   /\ vm'.sp_ = vm.sp_ + ToNat(api'.size)
        /\ Calls("pop") =>
              IF ~IsSmall(api'.size) \/ vm.sp_ < ToNat(api'.size)
              THEN /\ raised' = "Stack underflow"
                   /\ vm'.sp_ = vm.sp_
                   /\ vm'.stack_ = vm.stack_
              ELSE /\ raised' = ""
                   /\ vm'.sp_ = vm.sp_ - ToNat(api'.size) ]_vars

\* The heap bytes that differ between this state and the next all lie in
\* the n bytes at addr.
HeapChangesWithin(addr, n) ==
    \A i \in 1..vm.heap_size_ :
        vm'.heap_[i] # vm.heap_[i] => i > ToNat(addr) /\ i <= ToNat(addr) + n

\* The address of the LOAD or STORE about to run.
FetchedAddress == Low32(vm.registers_[Fetched.operand1])

\* C16: heap accesses touch only addresses in [0, heap_size).  A
\* read_memory, write_memory, LOAD or STORE with addr + size > heap_size
\* fails with an out-of-bounds error and leaves the heap unchanged; one
\* that succeeds reads or writes no byte outside the heap, and a write
\* changes only bytes of its region; and read_memory(a, 8) right after a
\* successful write_memory(a, v, 8) returns v.
C16_HeapAccessInBounds ==
    [][ /\ Calls("read_memory") =>
              /\ Exceeds(api'.addr, api'.size, vm.heap_size_) =>
                    raised' = "Memory read out of bounds"
              /\ ~api'.overrun
              /\ vm'.heap_ = vm.heap_
        /\ Calls("write_memory") =>
              /\ Exceeds(api'.addr, api'.size, vm.heap_size_) =>
                    raised' = "Memory write out of bounds" /\ vm'.heap_ = vm.heap_
              /\ ~api'.overrun
              /\ HeapChangesWithin(api'.addr, copied(api'.size))
        /\ ( /\ Calls("read_memory")
             /\ api.op = "write_memory" /\ raised = ""
             /\ api.size = Word(BYTES)
             /\ api'.addr = api.addr /\ api'.size = Word(BYTES) ) =>
              raised' = "" /\ api'.ret = api.value
        /\ (Executes /\ Fetched.opcode = "LOAD") =>
              /\ Exceeds(FetchedAddress, Word(BYTES), vm.heap_size_) =>
                    raised' = "Memory read out of bounds"
              /\ vm'.heap_ = vm.heap_
        /\ (Executes /\ Fetched.opcode = "STORE") =>
              /\ Exceeds(FetchedAddress, Word(BYTES), vm.heap_size_) =>
                    raised' = "Memory write out of bounds" /\ vm'.heap_ = vm.heap_
              /\ HeapChangesWithin(FetchedAddress, BYTES) ]_vars

\* C24: get_state leaves the VM as it was and returns its pc, sp, fp, halt
\* flag and sixteen registers; after set_state(s), get_state() returns s;
\* and set_state(get_state()) leaves pc, sp, fp, the halt flag and the
\* registers as they were.
C24_SnapshotRoundTrip ==
    /\ api.op = "get_state" =>
          /\ vm = api.before
          /\ api.state.pc = vm.pc_
          /\ api.state.sp = vm.sp_
          /\ api.state.fp = vm.fp_
          /\ api.state.halted = vm.halt_flag_
          /\ \A r \in 0..(NUM_REGISTERS - 1) : api.state.registers[r] = vm.registers_[r]
    /\ api.op = "set_state" =>
          /\ get_state(vm) = api.state
          /\ api.state = get_state(api.before) =>
                /\ vm.pc_ = api.before.pc_
                /\ vm.sp_ = api.before.sp_
                /\ vm.fp_ = api.before.fp_
                /\ vm.halt_flag_ = api.before.halt_flag_
                /\ vm.registers_ = api.before.registers_

\* A VM that halted with a value on its stack and in a register has been
\* asked for its snapshot and then given that snapshot back.
C24_Witness ==
    /\ api.op = "set_state"
    /\ api.n = 2
    /\ api.state = get_state(api.before)
    /\ api.state.halted
    /\ api.state.pc = 3
    /\ api.state.sp = BYTES
    /\ api.state.registers[1] = Word(HeapSize - BYTES + 1)

\* The value of a register as an int64_t, for registers within 2^24 of zero.
IntOf(w) == IF IsSmall(w) THEN ToNat(w) ELSE 0 - ToNat(Sub(Word(0), w))

\* Whether the jump about to run is taken, read off the registers.
Taken ==
    CASE Fetched.opcode \in {"JMP", "CALL"} -> TRUE
      [] Fetched.opcode = "JZ" -> vm.registers_[Fetched.operand1] = Word(0)
      [] Fetched.opcode = "JNZ" -> vm.registers_[Fetched.operand1] # Word(0)
      [] Fetched.opcode = "JLT" ->
             IntOf(vm.registers_[Fetched.operand1]) < IntOf(vm.registers_[Fetched.operand2])
      [] Fetched.opcode = "JLE" ->
             IntOf(vm.registers_[Fetched.operand1]) <= IntOf(vm.registers_[Fetched.operand2])
      [] Fetched.opcode = "JGT" ->
             IntOf(vm.registers_[Fetched.operand1]) > IntOf(vm.registers_[Fetched.operand2])
      [] Fetched.opcode = "JGE" ->
             IntOf(vm.registers_[Fetched.operand1]) >= IntOf(vm.registers_[Fetched.operand2])
      [] OTHER -> FALSE

\* C29: after JMP t, CALL t or a taken conditional jump to t, pc is t: the
\* next instruction fetched is program[t], or run stops if t is not below
\* the length of the program; for t = 0 as for every other target.
C29_JumpsLandOnTarget ==
    [][ (Executes /\ Fetched.opcode \in JumpOpcodes /\ Taken) =>
            /\ raised' = ""
            /\ vm'.pc_ = Fetched.immediate
            /\ inProgram(vm') <=> Fetched.immediate < Len(vm.program_) ]_vars

\* JLT R2, R0 with target 0 was taken at index 2, R2 being negative: pc went
\* through 0 - 1 and the increment, and the loop is about to fetch
\* program[0] again.
C29_Witness ==
    /\ vrun = "running"
    /\ vm.program_[3] = Jump("JLT", 2, 0, 0)
    /\ executed = 3
    /\ vm.pc_ = 0

\* C30: CMP a, b sets register 15 to 0 if the registers are equal, 1 if a
\* is less than b as 64-bit signed integers, 2 if it is greater, and
\* changes no other register; JLT, JLE, JGT and JGE are taken exactly when
\* the same signed ordering says so.
C30_ComparisonsAreSigned ==
    [][ Executes =>
          /\ Fetched.opcode = "CMP" =>
                /\ raised' = ""
                /\ vm'.registers_[15] =
                      IF vm.registers_[Fetched.operand1] = vm.registers_[Fetched.operand2]
                      THEN Word(0)
                      ELSE IF IntOf(vm.registers_[Fetched.operand1])
                                < IntOf(vm.registers_[Fetched.operand2])
                      THEN Word(1) ELSE Word(2)
                /\ \A r \in 0..(NUM_REGISTERS - 2) : vm'.registers_[r] = vm.registers_[r]
          /\ Fetched.opcode \in {"JLT", "JLE", "JGT", "JGE"} =>
                vm'.pc_ = IF Taken THEN Fetched.immediate ELSE vm.pc_ + 1 ]_vars

\* CMP R2, R0 has run with R2 = 2^64 - 1 and R0 = 0: register 15 holds 1,
\* less.
C30_Witness ==
    /\ executed = 3
    /\ vm.program_[3] = Op3("CMP", 0, 2, 0)
    /\ vm.registers_[2] = Sub(Word(0), Word(1))
    /\ vm.registers_[0] = Word(0)
    /\ vm.registers_[15] = Word(1)

\* The register fields of the instruction about to run.
RegisterFields == {Fetched.dest, Fetched.operand1, Fetched.operand2}

\* C31: read_register and write_register with an index of 16 or more fail
\* with "Invalid register index" and change nothing, and executing an
\* instruction whose dest, operand1 or operand2 is 16 or more fails with
\* "Invalid register index", the VM left as it was.
C31_RegisterIndexIsChecked ==
    /\ [](\A reg \in NUM_REGISTERS..(NUM_REGISTERS + 1) :
            /\ read_register(vm, reg) = throw(vm, "Invalid register index")
            /\ \A value \in Values :
                 write_register(vm, reg, value) = throw(vm, "Invalid register index"))
    /\ [][ (Executes /\ \E reg \in RegisterFields : reg >= NUM_REGISTERS) =>
              /\ raised' = "Invalid register index"
              /\ vm'.registers_ = vm.registers_
              /\ vm'.sp_ = vm.sp_
              /\ vm'.halt_flag_ = vm.halt_flag_ ]_vars

\* The part of C31 that is about read_register and write_register.
C31_AccessorsCheckTheIndex ==
    \A reg \in NUM_REGISTERS..(NUM_REGISTERS + 1) :
        /\ read_register(vm, reg) = throw(vm, "Invalid register index")
        /\ \A value \in Values :
             write_register(vm, reg, value) = throw(vm, "Invalid register index")

\* The second run of the program has ended.
RanTwice == api.op = "run" /\ vrun \in {"returned", "raised"}

\* C37: run is deterministic in the program alone.  Running a program a
\* second time on one VM, after the first run returned or raised, ends in
\* the registers, sp, call stack and heap, and with the exception, of the
\* run on the freshly constructed VM.
C37_RunIsDeterministic ==
    RanTwice =>
        /\ vm.registers_ = api.before.registers_
        /\ vm.sp_ = api.before.sp_
        /\ vm.call_stack_ = api.before.call_stack_
        /\ vm.heap_ = api.before.heap_
        /\ raised = api.raised

\* What run does reset: the second run starts at pc = 0 with the halt flag
\* down.
C37_RunRestartsAtZero ==
    (api.op = "run" /\ vrun = "running" /\ executed = 0) =>
        vm.pc_ = 0 /\ ~vm.halt_flag_

\* C38: in every reachable state of the register VM, after any sequence of
\* run, PUSH and POP instructions and set_state calls, sp is between 0 and
\* stack_size; set_state never installs an sp greater than stack_size.
C38_StackPointerWithinStack ==
    /\ 0 <= vm.sp_
    /\ vm.sp_ <= vm.stack_size_

\* C38 for the snapshots that get_state returned: the sp that run leaves
\* and that get_state and set_state hand round is within the stack.
C38_WithinStackForOwnSnapshots ==
    [][ (vm.sp_ <= vm.stack_size_ /\ api'.op = "set_state" /\ api'.n = api.n + 1
           /\ api'.state.sp <= vm.stack_size_) =>
              vm'.sp_ <= vm'.stack_size_ ]_vars

\* C39: the stack is last-in first-out for 8-byte values.  After push(v, 8)
\* calls that returned, pop(8) returns the values in the reverse order and
\* the last of as many pops leaves sp as the first push found it;
\* peek_stack(0, 8) returns the value the next pop(8) returns and changes
\* neither sp nor the stack.
C39_StackIsLifo ==
    /\ [](api.held # <<>> => vm.sp_ = api.base + BYTES * Len(api.held))
    /\ [][ (Calls("pop") /\ api.held # <<>>) =>
              /\ raised' = ""
              /\ api'.ret = api.held[Len(api.held)]
              /\ vm'.sp_ = vm.sp_ - BYTES
              /\ Len(api.held) = 1 => vm'.sp_ = api.base ]_vars
    /\ [][ (Calls("peek_stack") /\ api.held # <<>>) =>
              /\ raised' = ""
              /\ api'.ret = api.held[Len(api.held)]
              /\ popped(vm, Word(BYTES)) = {api'.ret}
              /\ vm' = vm ]_vars

\* After a push of one byte and pushes of two different values, the value
\* pushed last has been popped and the other is still held.
C39_Witness ==
    /\ api.op = "pop"
    /\ api.n = 4
    /\ api.base = 1
    /\ api.held = <<Word(BYTE + 2)>>
    /\ api.ret = Sub(Word(0), Word(2))
    /\ vm.sp_ = BYTES + 1

====
